---- MODULE Spec2Model ----
(***************************************************************************)
(* Model of the Airtable proxy handlers of pm-dashboard.                   *)
(*                                                                         *)
(* One invocation of the handler of src/unnamed/part_001 (and of the       *)
(* exported, second handler of src/netlify/functions/airtable.js) is a     *)
(* state machine: the synchronous prefix up to the first await (Start),    *)
(* one step per answer of the backend to a list request (ListResponse)    *)
(* and one step for the answer to the write request (WriteResponse).  Each *)
(* step runs the continuation of the code up to its next await or return.  *)
(* Two invocations in flight take their steps in any order (Switch).       *)
(***************************************************************************)
EXTENDS Integers, Sequences, FiniteSets, TLC

VARIABLES
    variant,    \* which handler runs: "part_001", "airtable_js" or "with_cashflow"
    env,        \* process.env: which of AIRTABLE_BASE_ID / AIRTABLE_TOKEN are set
    event,      \* the event: httpMethod, path, body
    tables,     \* backend: table name -> its pages
    writeAns,   \* backend: its answer to a create/patch/delete request
    pc,         \* position of the handler: "start", "maps", "fanout", "write", "done"
    fetch,      \* per table, the state of its fetchAll call
    net,        \* every request issued to the backend, in order
    maps,       \* result of buildProjectMaps
    fields,     \* the fields object of the write being prepared
    response,   \* the value the handler's promise resolved with
    peer,       \* a second invocation in flight, suspended at an await: its
                \* own event, backend answers, position and locals
    store       \* backend: the stored records the writes address, and the
                \* write requests it has applied, in order

vars == <<variant, env, event, tables, writeAns, pc, fetch, net, maps, fields, response,
          peer, store>>

-----------------------------------------------------------------------------
(* JavaScript values *)

Undef == [t |-> "undef"]
Null == [t |-> "null"]
NaN == [t |-> "nan"]
Fn == [t |-> "fn"]
Str(s) == [t |-> "str", s |-> s]
Num(n) == [t |-> "num", n |-> n]
Arr(a) == [t |-> "arr", a |-> a]
Obj(o) == [t |-> "obj", o |-> o]

EmptyObj == <<>>

\* ToBoolean
Truthy(v) ==
    CASE v.t \in {"undef", "null", "nan"} -> FALSE
      [] v.t = "str" -> v.s # ""
      [] v.t = "chars" -> v.c # <<>>
      [] v.t = "num" -> v.n # 0
      [] OTHER -> TRUE

\* a || b
Or(a, b) == IF Truthy(a) THEN a ELSE b

\* a ?? b
Nullish(a, b) == IF a.t \in {"undef", "null"} THEN b ELSE a

\* Names every object literal {} inherits from Object.prototype.
ObjectPrototypeProps == {"constructor", "toString", "valueOf", "hasOwnProperty"}

\* ToPropertyKey: the property name a value is converted to in obj[value].
ToPropertyKey(v) ==
    CASE v.t = "str" -> v.s
      [] v.t = "undef" -> "undefined"
      [] v.t = "null" -> "null"
      [] v.t = "nan" -> "NaN"
      [] v.t = "fn" -> "function Object() { [native code] }"
      [] OTHER -> "[object Object]"

\* obj[key] on a plain object whose own properties are o (string-valued map):
\* an own property, else an inherited one, else undefined.
GetProp(o, key) ==
    LET p == ToPropertyKey(key)
    IN  IF p \in DOMAIN o THEN o[p]
        ELSE IF p \in ObjectPrototypeProps THEN Fn
        ELSE Undef

\* f[name] for a field name that no prototype defines.
Field(f, name) == IF name \in DOMAIN f THEN f[name] ELSE Undef

\* r.fields || {}
FieldsOf(r) == IF Truthy(r.fields) THEN r.fields.o ELSE EmptyObj

\* Number(string), for the strings of the model.
StringToNumber(s) ==
    CASE s = "" -> Num(0)
      [] s = "50" -> Num(50)
      [] s = "100" -> Num(100)
      [] OTHER -> NaN

\* Number(v)
ToNumber(v) ==
    CASE v.t = "num" -> v
      [] v.t = "null" -> Num(0)
      [] v.t = "str" -> StringToNumber(v.s)
      [] OTHER -> NaN

\* new Date(s): the UTC day of a parseable string, "" when the Date is invalid.
DateParse(s) ==
    CASE s = "2024-03-01" -> "2024-03-01"
      [] s = "2024-03-01T23:30:00-05:00" -> "2024-03-02"
      [] OTHER -> ""

\* v ? new Date(v).toISOString().slice(0, 10) : dflt
\* toISOString throws a RangeError on an invalid Date.
IsoOrDefault(v, dflt) ==
    IF ~Truthy(v) THEN [thrown |-> FALSE, v |-> dflt]
    ELSE IF v.t = "str" /\ DateParse(v.s) # ""
         THEN [thrown |-> FALSE, v |-> Str(DateParse(v.s))]
         ELSE [thrown |-> TRUE, v |-> Undef]

-----------------------------------------------------------------------------
(* The backend and fetchAll *)

TABLE_PROJECTS == "Projects"
TABLE_TASKS == "Tasks"
TABLE_TEAM == "Team"
TABLE_CRITICAL == "Critical"
TABLE_CASHFLOW == "Cashflow"

ChildTables == <<TABLE_TASKS, TABLE_TEAM, TABLE_CRITICAL, TABLE_CASHFLOW>>
Tables == {TABLE_PROJECTS, TABLE_TASKS, TABLE_TEAM, TABLE_CRITICAL, TABLE_CASHFLOW}

PageSize == 100

\* r.ok of a fetch Response
Ok(status) == status \in 200..299

\* The list request fetchAll builds: listApi(table), plus &offset= when offset is truthy.
ListRequest(table, offset) ==
    [kind |-> "list", table |-> table, pageSize |-> PageSize, offset |-> offset]

\* The backend's answer to a list request: without offset the first page, with
\* the cursor k the page k; an unknown cursor is refused.
ServePage(table, offset) ==
    LET k == IF offset = 0 THEN 1 ELSE offset
    IN  IF k \in DOMAIN tables[table] THEN tables[table][k]
        ELSE [status |-> 422, text |-> "INVALID_OFFSET", records |-> <<>>, offset |-> 0]

IdleFetch == [st |-> "idle", out |-> <<>>, offset |-> 0, err |-> Undef]

\* fetchAll up to its first await: out = [], offset = null, the first request is sent.
BeginFetch == [st |-> "inflight", out |-> <<>>, offset |-> 0, err |-> Undef]

\* fetchAll with "throw new Error(`Airtable error ${table}`)": the status and
\* the body of the answer are not in the message.
ListErrorBare(table, status, text) ==
    [name |-> "Error",
     message |-> [what |-> "Airtable error", table |-> table,
                  status |-> 0, body |-> ""]]

\* new Error(`Airtable error ${table}: ${r.status} ${t}`)
ListError(table, status, text) ==
    [name |-> "Error",
     message |-> [what |-> "Airtable error", table |-> table,
                  status |-> status, body |-> text]]

\* out = out.concat(data.records || [])
ConcatRecords(out, page) == out \o page.records

\* fetchAll with "out = data.records || []": each page replaces the ones before.
FetchStepOverwrite(f, table, page) ==
    IF ~Ok(page.status)
    THEN [f EXCEPT !.st = "failed", !.err = ListError(table, page.status, page.text)]
    ELSE IF page.offset = 0
         THEN [f EXCEPT !.st = "done", !.out = page.records]
         ELSE [f EXCEPT !.out = page.records, !.offset = page.offset]

\* One turn of the loop of fetchAll, from the answer to its pending request to
\* the next await (st "inflight": the next request is sent), the return
\* ("done") or the throw ("failed").
FetchStep(f, table, page) ==
    IF ~Ok(page.status)
    THEN [f EXCEPT !.st = "failed", !.err = ListError(table, page.status, page.text)]
    ELSE IF page.offset = 0
         THEN [f EXCEPT !.st = "done", !.out = ConcatRecords(f.out, page)]
         ELSE [f EXCEPT !.out = ConcatRecords(f.out, page), !.offset = page.offset]

-----------------------------------------------------------------------------
(* buildProjectMaps *)

RECURSIVE MapsLoop(_, _, _)
MapsLoop(recs, i, acc) ==
    IF i > Len(recs) THEN acc
    ELSE LET p == recs[i]
             key == Field(FieldsOf(p), "Project Key")
         IN  IF ~Truthy(key) THEN MapsLoop(recs, i + 1, acc)
             ELSE MapsLoop(recs, i + 1,
                    [acc EXCEPT
                       !.projectIdToKey = [k \in DOMAIN @ \cup {p.id} |->
                                             IF k = p.id THEN key ELSE @[k]],
                       !.projectKeyToId = [k \in DOMAIN @ \cup {ToPropertyKey(key)} |->
                                             IF k = ToPropertyKey(key) THEN Str(p.id) ELSE @[k]]])

NoMaps == [projectsRec |-> <<>>, projectIdToKey |-> EmptyObj, projectKeyToId |-> EmptyObj]

\* buildProjectMaps with "if (key === undefined) continue": a record with an
\* empty "Project Key" is mapped too.
RECURSIVE MapsLoopKeepEmpty(_, _, _)
MapsLoopKeepEmpty(recs, i, acc) ==
    IF i > Len(recs) THEN acc
    ELSE LET p == recs[i]
             key == Field(FieldsOf(p), "Project Key")
         IN  IF key = Undef THEN MapsLoopKeepEmpty(recs, i + 1, acc)
             ELSE MapsLoopKeepEmpty(recs, i + 1,
                    [acc EXCEPT
                       !.projectIdToKey = [k \in DOMAIN @ \cup {p.id} |->
                                             IF k = p.id THEN key ELSE @[k]],
                       !.projectKeyToId = [k \in DOMAIN @ \cup {ToPropertyKey(key)} |->
                                             IF k = ToPropertyKey(key) THEN Str(p.id) ELSE @[k]]])

BuildProjectMapsKeepEmpty(projectsRec) ==
    MapsLoopKeepEmpty(projectsRec, 1,
                      [projectsRec |-> projectsRec, projectIdToKey |-> EmptyObj,
                       projectKeyToId |-> EmptyObj])

BuildProjectMaps(projectsRec) ==
    MapsLoop(projectsRec, 1,
             [projectsRec |-> projectsRec, projectIdToKey |-> EmptyObj,
              projectKeyToId |-> EmptyObj])

-----------------------------------------------------------------------------
(* GET aggregation *)

\* The meta block of a project; ganttStart/ganttEnd may throw.
ProjectMeta(pf) ==
    LET gs == IsoOrDefault(Field(pf, "Gantt Start"), Null)
        ge == IsoOrDefault(Field(pf, "Gantt End"), Null)
    IN  [thrown |-> gs.thrown \/ ge.thrown,
         v |-> [name |-> Or(Field(pf, "Name"), Str("")),
                subtitle |-> Or(Field(pf, "Subtitle"), Str("")),
                statusLabel |-> Or(Field(pf, "Status Label"), Str("")),
                client |-> Or(Field(pf, "Client"), Str("")),
                amount |-> Or(Field(pf, "Amount"), Str("")),
                start |-> Or(Field(pf, "Start Display"), Str("")),
                end |-> Or(Field(pf, "End Display"), Str("")),
                pm |-> Or(Field(pf, "PM"), Str("")),
                ganttStart |-> gs.v,
                ganttEnd |-> ge.v]]

\* projects[key] = {...}: a later record with the same key replaces the entry.
SetProject(projects, key, entry) ==
    [k \in DOMAIN projects \cup {key} |-> IF k = key THEN entry ELSE projects[k]]

RECURSIVE ProjectsLoop(_, _, _)
ProjectsLoop(recs, i, acc) ==
    IF i > Len(recs) \/ acc.thrown THEN acc
    ELSE LET pf == FieldsOf(recs[i])
             key == Field(pf, "Project Key")
             meta == ProjectMeta(pf)
         IN  IF ~Truthy(key) THEN ProjectsLoop(recs, i + 1, acc)
             ELSE IF meta.thrown THEN [acc EXCEPT !.thrown = TRUE]
             ELSE ProjectsLoop(recs, i + 1,
                    [acc EXCEPT !.projects =
                       SetProject(@, ToPropertyKey(key),
                                  [meta |-> meta.v, tasks |-> <<>>, team |-> <<>>,
                                   critical |-> <<>>, cashflow |-> <<>>])])

\* const linkedId = Array.isArray(proj) ? proj[0] : proj
LinkedId(proj) ==
    IF proj.t = "arr"
    THEN (IF Len(proj.a) > 0 THEN proj.a[1] ELSE Undef)
    ELSE proj

\* A resolution that tries every element of a list instead of the first only.
ResolveAnyElement(projectIdToKey, proj) ==
    LET hits == IF proj.t = "arr"
                THEN {i \in DOMAIN proj.a : Truthy(GetProp(projectIdToKey, proj.a[i]))}
                ELSE {}
    IN  IF hits # {}
        THEN GetProp(projectIdToKey, proj.a[CHOOSE i \in hits : \A j \in hits : i <= j])
        ELSE Or(GetProp(projectIdToKey, LinkedId(proj)), LinkedId(proj))

\* const projectKey = projectIdToKey[linkedId] || linkedId
ResolveProjectKey(projectIdToKey, proj) ==
    Or(GetProp(projectIdToKey, LinkedId(proj)), LinkedId(proj))

\* The outcome of "if (!projectKey || !projects[projectKey]) continue": "skip",
\* "push" (projects[projectKey] is one of the entries), or "throw" (it is an
\* inherited property, which has no child arrays to push to).
LinkOutcome(projects, projectKey) ==
    IF ~Truthy(projectKey) THEN "skip"
    ELSE IF ToPropertyKey(projectKey) \in DOMAIN projects THEN "push"
    ELSE IF ToPropertyKey(projectKey) \in ObjectPrototypeProps THEN "throw"
    ELSE "skip"

TaskEntry(t) ==
    LET tf == FieldsOf(t)
        sd == IsoOrDefault(Field(tf, "Start Date"), Str(""))
        ed == IsoOrDefault(Field(tf, "End Date"), Str(""))
    IN  [thrown |-> sd.thrown \/ ed.thrown,
         v |-> [recordId |-> Str(t.id),
                id |-> Nullish(Field(tf, "Task ID"), Null),
                name |-> Or(Field(tf, "Name"), Str("")),
                description |-> Or(Field(tf, "Description"), Str("")),
                owner |-> Or(Field(tf, "Owner"), Str("")),
                status |-> Or(Field(tf, "Status"), Str("pending")),
                progress |-> ToNumber(Nullish(Field(tf, "Progress"), Num(0))),
                startDate |-> sd.v,
                endDate |-> ed.v]]

TeamEntry(m) ==
    LET mf == FieldsOf(m)
    IN  [thrown |-> FALSE,
         v |-> [name |-> Or(Field(mf, "Name"), Str("")),
                role |-> Or(Field(mf, "Role"), Str("")),
                initials |-> Or(Field(mf, "Initials"), Str(""))]]

CriticalEntry(c) ==
    [thrown |-> FALSE, v |-> Or(Field(FieldsOf(c), "Text"), Str(""))]

\* A string value given by its characters.
Chars(cs) == [t |-> "chars", c |-> cs]

Digits == <<"0", "1", "2", "3", "4", "5", "6", "7", "8", "9">>

IsDigit(c) == \E i \in DOMAIN Digits : Digits[i] = c

DigitValue(c) == (CHOOSE i \in DOMAIN Digits : Digits[i] = c) - 1

\* The characters of the strings of the model that an amount is given as.
CharsOf(s) ==
    CASE s = "" -> <<>>
      [] s = "50" -> <<"5", "0">>
      [] s = "100" -> <<"1", "0", "0">>
      [] s = "abc" -> <<"a", "b", "c">>
      [] s = "$1,200.50" -> <<"$", "1", ",", "2", "0", "0", ".", "5", "0">>

\* The decimal digits of a natural number.
RECURSIVE NaturalChars(_)
NaturalChars(n) ==
    IF n < 10 THEN <<Digits[n + 1]>> ELSE NaturalChars(n \div 10) \o <<Digits[(n % 10) + 1]>>

\* String(v), for a string or an integer.
StringOf(v) ==
    CASE v.t = "chars" -> v.c
      [] v.t = "str" -> CharsOf(v.s)
      [] v.t = "num" -> IF v.n < 0 THEN <<"-">> \o NaturalChars(0 - v.n) ELSE NaturalChars(v.n)

\* s.replace(/[^0-9-]/g, ""): the decimal point is deleted as well.
StripNonDigits(cs) == SelectSeq(cs, LAMBDA c : IsDigit(c) \/ c = "-")

\* s.replace(/[^0-9.-]/g, "")
StripNonNumeric(cs) == SelectSeq(cs, LAMBDA c : IsDigit(c) \/ c = "." \/ c = "-")

\* The number m / 10^k: an integer is Num, another number carries its scale
\* and a mantissa that does not end in 0.
RECURSIVE Decimal(_, _)
Decimal(m, k) ==
    IF k = 0 THEN Num(m)
    ELSE IF m % 10 = 0 THEN Decimal(m \div 10, k - 1)
    ELSE [t |-> "num", n |-> m, scale |-> k]

RECURSIVE DigitsValue(_)
DigitsValue(ds) ==
    IF ds = <<>> THEN 0
    ELSE 10 * DigitsValue(SubSeq(ds, 1, Len(ds) - 1)) + DigitValue(ds[Len(ds)])

\* Number(s) for a string s of digits, "." and "-": 0 for the empty string, the
\* value of an optional "-" followed by digits with at most one "." among
\* them, NaN for any other string.
NumericToNumber(cs) ==
    LET neg == cs # <<>> /\ cs[1] = "-"
        body == IF neg THEN Tail(cs) ELSE cs
        dots == {i \in DOMAIN body : body[i] = "."}
        ds == SelectSeq(body, IsDigit)
        dot == IF dots = {} THEN Len(body) ELSE CHOOSE i \in dots : TRUE
    IN  IF cs = <<>> THEN Num(0)
        ELSE IF \/ Cardinality(dots) > 1
                \/ ds = <<>>
                \/ \E i \in DOMAIN body : body[i] = "-"
             THEN NaN
        ELSE Decimal((IF neg THEN -1 ELSE 1) * DigitsValue(ds), Len(body) - dot)

\* Number(String(cf["Amount"] ?? 0).replace(/[^0-9.-]/g, "")) || 0
AmountOf(cf) ==
    Or(NumericToNumber(StripNonNumeric(StringOf(Nullish(Field(cf, "Amount"), Num(0))))),
       Num(0))

\* part_001: the Date of a cashflow record is converted without a guard.
CashflowEntry(c) ==
    LET cf == FieldsOf(c)
        d == IsoOrDefault(Field(cf, "Date"), Str(""))
    IN  [thrown |-> d.thrown,
         v |-> [recordId |-> Str(c.id),
                concept |-> Or(Field(cf, "Concept"), Str("")),
                date |-> d.v,
                type |-> Or(Field(cf, "Type"), Str("")),
                amount |-> AmountOf(cf),
                currency |-> Or(Field(cf, "Currency"), Str("USD")),
                party |-> Or(Field(cf, "Party"), Str("")),
                status |-> Or(Field(cf, "Status"), Str("")),
                notes |-> Or(Field(cf, "Notes"), Str("")),
                relatedTask |-> Or(Field(cf, "Relacionado a tarea"), Str(""))]]

\* airtable.js (second handler): try { toISOString } catch { String(f["Date"]) }.
CashflowEntryJs(r) ==
    LET f == FieldsOf(r)
        d == IsoOrDefault(Field(f, "Date"), Str(""))
    IN  [thrown |-> FALSE,
         v |-> [recordId |-> Str(r.id),
                name |-> Or(Field(f, "Name"), Str("")),
                date |-> IF d.thrown THEN Field(f, "Date") ELSE d.v,
                type |-> Or(Field(f, "Type"), Str("")),
                amount |-> Nullish(Field(f, "Amount"), Str("")),
                currency |-> Or(Field(f, "Currency"), Str("")),
                counterparty |-> Or(Field(f, "Counterparty"), Str("")),
                status |-> Or(Field(f, "Status"), Str("")),
                notes |-> Or(Field(f, "Notes"), Str("")),
                relatedTask |-> Or(Field(f, "Relacionado a tarea"), Str(""))]]

\* The entry a child record of a table is projected to.
ChildEntry(hv, table, r) ==
    CASE table = TABLE_TASKS -> TaskEntry(r)
      [] table = TABLE_TEAM -> TeamEntry(r)
      [] table = TABLE_CRITICAL -> CriticalEntry(r)
      [] OTHER -> IF hv = "airtable_js" THEN CashflowEntryJs(r) ELSE CashflowEntry(r)

\* The push when every project entry was built around the same four arrays:
\* an entry pushed for one project shows under all of them.
PushChildShared(projects, key, table, entry) ==
    [k \in DOMAIN projects |->
        CASE table = TABLE_TASKS -> [projects[k] EXCEPT !.tasks = Append(@, entry)]
          [] table = TABLE_TEAM -> [projects[k] EXCEPT !.team = Append(@, entry)]
          [] table = TABLE_CRITICAL -> [projects[k] EXCEPT !.critical = Append(@, entry)]
          [] OTHER -> [projects[k] EXCEPT !.cashflow = Append(@, entry)]]

\* projects[projectKey].<kind>.unshift(entry): the entry goes to the front.
PushChildFront(projects, key, table, entry) ==
    [projects EXCEPT ![key] =
        CASE table = TABLE_TASKS -> [@ EXCEPT !.tasks = <<entry>> \o @]
          [] table = TABLE_TEAM -> [@ EXCEPT !.team = <<entry>> \o @]
          [] table = TABLE_CRITICAL -> [@ EXCEPT !.critical = <<entry>> \o @]
          [] OTHER -> [@ EXCEPT !.cashflow = <<entry>> \o @]]

\* projects[projectKey].<kind>.push(entry)
PushChild(projects, key, table, entry) ==
    [projects EXCEPT ![key] =
        CASE table = TABLE_TASKS -> [@ EXCEPT !.tasks = Append(@, entry)]
          [] table = TABLE_TEAM -> [@ EXCEPT !.team = Append(@, entry)]
          [] table = TABLE_CRITICAL -> [@ EXCEPT !.critical = Append(@, entry)]
          [] OTHER -> [@ EXCEPT !.cashflow = Append(@, entry)]]

\* One of the four child loops.
RECURSIVE ChildLoop(_, _, _, _, _, _)
ChildLoop(hv, table, recs, i, projectIdToKey, acc) ==
    IF i > Len(recs) \/ acc.thrown THEN acc
    ELSE LET projectKey == ResolveProjectKey(projectIdToKey,
                                             Field(FieldsOf(recs[i]), "Project"))
             outcome == LinkOutcome(acc.projects, projectKey)
             entry == ChildEntry(hv, table, recs[i])
         IN  IF outcome = "skip"
             THEN ChildLoop(hv, table, recs, i + 1, projectIdToKey, acc)
             ELSE IF outcome = "throw" \/ entry.thrown
             THEN [acc EXCEPT !.thrown = TRUE]
             ELSE ChildLoop(hv, table, recs, i + 1, projectIdToKey,
                    [acc EXCEPT !.projects =
                        PushChild(@, ToPropertyKey(projectKey), table, entry.v)])

\* The synchronous pass of GET after the fan-in: the Projects loop, then the
\* Tasks, Team, Critical and Cashflow loops.  thrown: an exception left the pass.
Aggregate(hv, m, outs) ==
    LET p0 == ProjectsLoop(m.projectsRec, 1, [thrown |-> FALSE, projects |-> EmptyObj])
        p1 == ChildLoop(hv, TABLE_TASKS, outs[TABLE_TASKS], 1, m.projectIdToKey, p0)
        p2 == ChildLoop(hv, TABLE_TEAM, outs[TABLE_TEAM], 1, m.projectIdToKey, p1)
        p3 == ChildLoop(hv, TABLE_CRITICAL, outs[TABLE_CRITICAL], 1, m.projectIdToKey, p2)
    IN  ChildLoop(hv, TABLE_CASHFLOW, outs[TABLE_CASHFLOW], 1, m.projectIdToKey, p3)

-----------------------------------------------------------------------------
(* Request parsing and field translation *)

\* JSON.parse(event.body || "{}"): body kinds "none" (null or ""), "invalid"
\* (not JSON: SyntaxError), "null" (the JSON text null) and "object".
ParseBody(b) ==
    CASE b.kind = "none" -> [thrown |-> FALSE, v |-> Obj(EmptyObj)]
      [] b.kind = "invalid" -> [thrown |-> TRUE, v |-> Undef]
      [] b.kind = "null" -> [thrown |-> FALSE, v |-> Null]
      [] OTHER -> [thrown |-> FALSE, v |-> Obj(b.o)]

\* rest.replace(/^\/+/, ""), on the "/"-separated pieces of rest: the leading
\* empty pieces go; <<>> is the empty subpath.
RECURSIVE StripLeadingSlashes(_)
StripLeadingSlashes(tail) ==
    IF tail = <<>> THEN <<>>
    ELSE IF Head(tail) = "" THEN StripLeadingSlashes(Tail(tail))
    ELSE tail

\* const rest = path.startsWith(base) ? path.slice(base.length) : ""
Subpath(path) == IF path.hasBase THEN StripLeadingSlashes(path.tail) ELSE <<>>

\* subpath === name
SubpathIs(sub, name) == sub = <<name>>

\* subpath.startsWith(name + "/")
SubpathUnder(sub, name) == Len(sub) >= 2 /\ sub[1] = name

\* subpath.split("/")[1]
RecordIdOf(sub) == sub[2]

\* The branch of the handler an event with configuration present takes.
Route(hv, ev) ==
    LET sub == Subpath(ev.path)
        m == ev.httpMethod
    IN  CASE m = "GET" /\ (sub = <<>> \/ SubpathIs(sub, "projects")) -> "get"
          [] hv = "part_001" /\ m = "POST" /\ SubpathIs(sub, "tasks") -> "postTasks"
          [] hv = "part_001" /\ m = "PATCH" /\ SubpathUnder(sub, "tasks") -> "patchTasks"
          [] m = "POST" /\ SubpathIs(sub, "cashflow") -> "postCashflow"
          [] m = "PATCH" /\ SubpathUnder(sub, "cashflow") -> "patchCashflow"
          [] m = "DELETE" /\ SubpathUnder(sub, "cashflow") -> "deleteCashflow"
          [] OTHER -> "notFound"

\* Rows <<request field, backend field, rule>> of the PATCH translations.
TaskPatchTable ==
    << <<"name", "Name", "text">>,
       <<"description", "Description", "text">>,
       <<"owner", "Owner", "text">>,
       <<"status", "Status", "pending">>,
       <<"progress", "Progress", "number">>,
       <<"startDate", "Start Date", "date">>,
       <<"endDate", "End Date", "date">> >>

CashflowPatchTable ==
    << <<"concept", "Concept", "text">>,
       <<"date", "Date", "date">>,
       <<"type", "Type", "text">>,
       <<"amount", "Amount", "number">>,
       <<"currency", "Currency", "usd">>,
       <<"party", "Party", "text">>,
       <<"status", "Status", "text">>,
       <<"notes", "Notes", "text">>,
       <<"relatedTask", "Relacionado a tarea", "text">> >>

\* airtable.js (second handler): values pass through, only date gets "|| null".
CashflowPatchTableJs ==
    << <<"name", "Name", "raw">>,
       <<"date", "Date", "date">>,
       <<"type", "Type", "raw">>,
       <<"amount", "Amount", "raw">>,
       <<"currency", "Currency", "raw">>,
       <<"counterparty", "Counterparty", "raw">>,
       <<"status", "Status", "raw">>,
       <<"notes", "Notes", "raw">>,
       <<"relatedTask", "Relacionado a tarea", "raw">> >>

\* The right-hand side of one "if (payload.x !== undefined) fields[X] = ..." line.
PatchValue(rule, v) ==
    CASE rule = "text" -> Or(v, Str(""))
      [] rule = "pending" -> Or(v, Str("pending"))
      [] rule = "usd" -> Or(v, Str("USD"))
      [] rule = "number" -> ToNumber(Nullish(v, Num(0)))
      [] rule = "date" -> Or(v, Null)
      [] OTHER -> v
\* The fields object of a PATCH written like that of a create: every field of
\* the table is set, a field the payload does not name to its default.
PatchFieldsEvery(table, o) ==
    [n \in {table[i][2] : i \in DOMAIN table} |->
        LET i == CHOOSE j \in DOMAIN table : table[j][2] = n
        IN  PatchValue(table[i][3], Field(o, table[i][1]))]

\* The fields object of a PATCH written with "if (payload.x)": a field given
\* as "" or null is left out.
PatchFieldsTruthy(table, o) ==
    LET rows == {i \in DOMAIN table : Truthy(Field(o, table[i][1]))}
    IN  [n \in {table[i][2] : i \in rows} |->
            LET i == CHOOSE j \in rows : table[j][2] = n
            IN  PatchValue(table[i][3], Field(o, table[i][1]))]

\* The fields object a PATCH builds from the payload, before Project is added.
PatchFields(table, o) ==
    LET rows == {i \in DOMAIN table : Field(o, table[i][1]) # Undef}
    IN  [n \in {table[i][2] : i \in rows} |->
            LET i == CHOOSE j \in rows : table[j][2] = n
            IN  PatchValue(table[i][3], Field(o, table[i][1]))]

\* ...(payload.x ? { X: payload.x } : {})
Optional(o, from, to) ==
    IF Truthy(Field(o, from)) THEN (to :> Field(o, from)) ELSE EmptyObj

\* The fields object of POST /tasks with "Project: projectRecordId": the
\* identifier is not wrapped in a list.
CreateTaskFieldsBareId(o, projectRecordId) ==
    [Project |-> projectRecordId,
     Name |-> Or(Field(o, "name"), Str("")),
     Description |-> Or(Field(o, "description"), Str("")),
     Owner |-> Or(Field(o, "owner"), Str("")),
     Status |-> Or(Field(o, "status"), Str("pending")),
     Progress |-> ToNumber(Nullish(Field(o, "progress"), Num(0)))]
    @@ Optional(o, "startDate", "Start Date")
    @@ Optional(o, "endDate", "End Date")

\* The fields object of POST /tasks.
CreateTaskFields(o, projectRecordId) ==
    [Project |-> Arr(<<projectRecordId>>),
     Name |-> Or(Field(o, "name"), Str("")),
     Description |-> Or(Field(o, "description"), Str("")),
     Owner |-> Or(Field(o, "owner"), Str("")),
     Status |-> Or(Field(o, "status"), Str("pending")),
     Progress |-> ToNumber(Nullish(Field(o, "progress"), Num(0)))]
    @@ Optional(o, "startDate", "Start Date")
    @@ Optional(o, "endDate", "End Date")

\* The fields object of POST /cashflow (part_001).
CreateCashflowFields(o, projectRecordId) ==
    [Project |-> Arr(<<projectRecordId>>),
     Concept |-> Or(Field(o, "concept"), Str("")),
     Type |-> Or(Field(o, "type"), Str("")),
     Amount |-> ToNumber(Nullish(Field(o, "amount"), Num(0))),
     Currency |-> Or(Field(o, "currency"), Str("USD")),
     Party |-> Or(Field(o, "party"), Str("")),
     Status |-> Or(Field(o, "status"), Str("")),
     Notes |-> Or(Field(o, "notes"), Str(""))]
    @@ ("Relacionado a tarea" :> Or(Field(o, "relatedTask"), Str("")))
    @@ Optional(o, "date", "Date")

\* The fields object of POST /cashflow (airtable.js, second handler).
CreateCashflowFieldsJs(o, projectRecordId) ==
    [Project |-> Arr(<<projectRecordId>>),
     Name |-> Or(Field(o, "name"), Str("")),
     Type |-> Or(Field(o, "type"), Str("")),
     Amount |-> Nullish(Field(o, "amount"), Str("")),
     Currency |-> Or(Field(o, "currency"), Str("USD")),
     Counterparty |-> Or(Field(o, "counterparty"), Str("")),
     Status |-> Or(Field(o, "status"), Str("Previsto")),
     Notes |-> Or(Field(o, "notes"), Str(""))]
    @@ ("Relacionado a tarea" :> Or(Field(o, "relatedTask"), Str("")))
    @@ Optional(o, "date", "Date")

\* airtableReq(method, url, body): the request it sends.
WriteRequest(method, table, recordId, flds) ==
    [kind |-> "write", method |-> method, table |-> table,
     recordId |-> recordId, fields |-> flds]

\* data = text ? JSON.parse(text) : {}, with catch { data = { raw: text } }
ParseWriteBody(text) ==
    CASE text = "" -> Obj(EmptyObj)
      [] text = "{\"id\":\"recNew\"}" -> Obj([id |-> Str("recNew")])
      [] text = "{ \"error\": \"INVALID\" }" -> Obj([error |-> Str("INVALID")])
      [] OTHER -> Obj([raw |-> Str(text)])

\* new Error(`Airtable write error: ${r.status} ${JSON.stringify(data)}`);
\* body is the parsed data the message holds re-serialised.
WriteError(status, data) ==
    [name |-> "Error",
     message |-> [what |-> "Airtable write error", status |-> status, body |-> data]]

\* new Error(`Unknown projectKey: ${payload.projectKey}`), and the same text
\* as the error of the 400 answers.
UnknownKeyMessage(projectKey) == [what |-> "Unknown projectKey", key |-> projectKey]

\* String(e) of an Error: its name, ": " and its message.  A text written in
\* the code has no such prefix.
ErrorString(e) == [prefix |-> e.name, message |-> e.message]
Text(what) == [prefix |-> "", message |-> [what |-> what]]

-----------------------------------------------------------------------------
(* The handler *)

NoResponse == [statusCode |-> 0, body |-> Undef]

\* The part of the state a step of the handler changes.
Current ==
    [pc |-> pc, fetch |-> fetch, net |-> net, maps |-> maps,
     fields |-> fields, response |-> response]

\* return json(status, body): the promise of the handler resolves.
Reply(s, status, body) ==
    [s EXCEPT !.pc = "done", !.response = [statusCode |-> status, body |-> body]]

\* The handler without its catch: the promise rejects, there is no response.
CatchRethrow(s, e) == [s EXCEPT !.pc = "rejected"]

\* catch (e): 500 with { ok: false, error: String(e) }
Catch(s, e) == Reply(s, 500, [ok |-> FALSE, error |-> ErrorString(e)])

SyntaxError == [name |-> "SyntaxError", message |-> [what |-> "Unexpected token"]]
TypeError == [name |-> "TypeError", message |-> [what |-> "Cannot read properties"]]
RangeError == [name |-> "RangeError", message |-> [what |-> "Invalid time value"]]
\* The handler with fetchAll(TABLE_PROJECTS) inside the Promise.all of the
\* child tables: the five first requests leave together.
BeginMapsWithChildren(s) ==
    [s EXCEPT !.pc = "maps",
              !.fetch = [t \in Tables |-> BeginFetch],
              !.net = @ \o <<ListRequest(TABLE_PROJECTS, 0)>>
                        \o [i \in 1..Len(ChildTables) |-> ListRequest(ChildTables[i], 0)]]

\* buildProjectMaps up to its first await: fetchAll(TABLE_PROJECTS) sends its
\* first request.
BeginMaps(s) ==
    [s EXCEPT !.pc = "maps",
              !.fetch[TABLE_PROJECTS] = BeginFetch,
              !.net = Append(@, ListRequest(TABLE_PROJECTS, 0))]

\* await airtableReq(method, url, { fields })
SendWrite(s, method, table, recordId, flds) ==
    [s EXCEPT !.pc = "write",
              !.fields = flds,
              !.net = Append(@, WriteRequest(method, table, recordId, flds))]

\* Promise.all([fetchAll(Tasks), fetchAll(Team), fetchAll(Critical),
\* fetchAll(Cashflow)]): each call runs to its first await, in this order.
FanOut(s) ==
    [s EXCEPT !.pc = "fanout",
              !.fetch = [t \in Tables |->
                            IF t = TABLE_PROJECTS THEN @[t] ELSE BeginFetch],
              !.net = @ \o [i \in 1..Len(ChildTables) |-> ListRequest(ChildTables[i], 0)]]

\* POST /tasks and POST /cashflow up to buildProjectMaps.
StartCreate(s) ==
    LET parsed == ParseBody(event.body)
    IN  IF parsed.thrown THEN Catch(s, SyntaxError)
        ELSE IF parsed.v.t # "obj" THEN Catch(s, TypeError)
        ELSE IF ~Truthy(Field(parsed.v.o, "projectKey"))
             THEN Reply(s, 400, [ok |-> FALSE, error |-> Text("Missing projectKey")])
        ELSE BeginMaps(s)

\* The translation table of the PATCH route taken.
PatchTable(hv, route) ==
    IF route = "patchTasks" THEN TaskPatchTable
    ELSE IF hv = "airtable_js" THEN CashflowPatchTableJs
    ELSE CashflowPatchTable

RouteTable(route) ==
    IF route \in {"postTasks", "patchTasks"} THEN TABLE_TASKS ELSE TABLE_CASHFLOW

\* if (!recordId) return json(400, ...): part_001 has the guard, the second
\* handler of airtable.js has none.
MissingRecordId(hv, recordId) == hv = "part_001" /\ recordId = ""

\* PATCH /tasks/:recordId and PATCH /cashflow/:recordId up to the first await.
StartPatch(s, hv, route) ==
    LET recordId == RecordIdOf(Subpath(event.path))
        parsed == ParseBody(event.body)
    IN  IF MissingRecordId(hv, recordId)
        THEN Reply(s, 400, [ok |-> FALSE, error |-> Text("Missing recordId")])
        ELSE IF parsed.thrown THEN Catch(s, SyntaxError)
        ELSE IF parsed.v.t # "obj" THEN Catch(s, TypeError)
        ELSE LET flds == PatchFields(PatchTable(hv, route), parsed.v.o)
             IN  IF Truthy(Field(parsed.v.o, "projectKey"))
                 THEN BeginMaps([s EXCEPT !.fields = flds])
                 ELSE SendWrite(s, "PATCH", RouteTable(route), recordId, flds)

\* DELETE /cashflow/:recordId
StartDelete(s, hv) ==
    LET recordId == RecordIdOf(Subpath(event.path))
    IN  IF MissingRecordId(hv, recordId)
        THEN Reply(s, 400, [ok |-> FALSE, error |-> Text("Missing recordId")])
        ELSE SendWrite(s, "DELETE", TABLE_CASHFLOW, recordId, EmptyObj)
-----------------------------------------------------------------------------
(* airtable-with-cashflow.js: the GET of the handler written on the airtable
   client.  Its create and update routes are outside the model: no event of
   the specifications under this variant takes them. *)

\* fetchAll without its try/catch: the failure of a page leaves it.
FetchAllRethrow(f) == f

\* fetchAll: try { ...eachPage...; return records } catch (err) { return [] }.
\* The failure of any page gives [], the pages received before it included.
FetchAllCatch(f) ==
    IF f.st = "failed" THEN [f EXCEPT !.st = "done", !.out = <<>>, !.err = Undef] ELSE f

projectMetaFromRecord(r) ==
    LET f == FieldsOf(r)
    IN  [name |-> Or(Or(Field(f, "name"), Field(f, "Name")), Str("Proyecto")),
         subtitle |-> Or(Field(f, "subtitle"), Str("")),
         statusLabel |-> Or(Field(f, "statusLabel"), Str("")),
         client |-> Or(Field(f, "client"), Str("")),
         amount |-> Or(Field(f, "amount"), Str("")),
         start |-> Or(Field(f, "start"), Str("")),
         end |-> Or(Field(f, "end"), Str("")),
         pm |-> Or(Field(f, "pm"), Str("")),
         ganttStart |-> Or(Field(f, "ganttStart"), Str("")),
         ganttEnd |-> Or(Field(f, "ganttEnd"), Str(""))]

taskFromRecord(r) ==
    LET f == FieldsOf(r)
    IN  [recordId |-> Str(r.id),
         name |-> Or(Field(f, "Name"), Str("")),
         description |-> Or(Field(f, "Description"), Str("")),
         owner |-> Or(Field(f, "Owner"), Str("")),
         status |-> Or(Field(f, "Status"), Str("pending")),
         progress |-> ToNumber(Or(Field(f, "Progress"), Num(0))),
         startDate |-> Or(Field(f, "StartDate"), Str("")),
         endDate |-> Or(Field(f, "EndDate"), Str(""))]

teamFromRecord(r) ==
    LET f == FieldsOf(r)
    IN  [name |-> Or(Field(f, "Name"), Str("")),
         role |-> Or(Field(f, "Role"), Str("")),
         initials |-> Or(Field(f, "Initials"), Str(""))]

criticalFromRecord(r) == Or(Field(FieldsOf(r), "Item"), Str(""))

cashflowFromRecord(r) ==
    LET f == FieldsOf(r)
    IN  [recordId |-> Str(r.id),
         date |-> Or(Field(f, "Date"), Str("")),
         type |-> Or(Field(f, "Type"), Str("")),
         concept |-> Or(Field(f, "Concept"), Str("")),
         counterparty |-> Or(Field(f, "Counterparty"), Str("")),
         amount |-> ToNumber(Or(Field(f, "Amount"), Num(0))),
         currency |-> Or(Field(f, "Currency"), Str("USD")),
         status |-> Or(Field(f, "Status"), Str("")),
         notes |-> Or(Field(f, "Notes"), Str(""))]

\* The entry getProjectsPayload pushes for a record of a child table.
PayloadEntry(table, r) ==
    CASE table = TABLE_TASKS -> taskFromRecord(r)
      [] table = TABLE_TEAM -> teamFromRecord(r)
      [] table = TABLE_CRITICAL -> criticalFromRecord(r)
      [] OTHER -> cashflowFromRecord(r)

\* keyFromLinkedProjectField: the key of the first element of a non-empty
\* list; null for every other value of the field, a scalar identifier included.
keyFromLinkedProjectField(projectIdToKey, recordFields) ==
    LET linked == Field(recordFields, "Project")
    IN  IF linked.t = "arr" /\ Len(linked.a) > 0
        THEN Or(GetProp(projectIdToKey, linked.a[1]), Null)
        ELSE Null

\* "Build projects + id map" of getProjectsPayload.
RECURSIVE PayloadProjectsLoop(_, _, _)
PayloadProjectsLoop(projRecs, i, acc) ==
    IF i > Len(projRecs) THEN acc
    ELSE LET pr == projRecs[i]
             key == Field(FieldsOf(pr), "projectKey")
         IN  IF ~Truthy(key) THEN PayloadProjectsLoop(projRecs, i + 1, acc)
             ELSE PayloadProjectsLoop(projRecs, i + 1,
                    [acc EXCEPT
                       !.projects =
                          SetProject(@, ToPropertyKey(key),
                                     [meta |-> projectMetaFromRecord(pr), tasks |-> <<>>,
                                      team |-> <<>>, critical |-> <<>>, cashflow |-> <<>>]),
                       !.projectIdToKey = [k \in DOMAIN @ \cup {pr.id} |->
                                             IF k = pr.id THEN key ELSE @[k]]])

\* One of the four child loops of getProjectsPayload.
RECURSIVE PayloadChildLoop(_, _, _, _)
PayloadChildLoop(table, recs, i, acc) ==
    IF i > Len(recs) \/ acc.thrown THEN acc
    ELSE LET key == keyFromLinkedProjectField(acc.projectIdToKey, FieldsOf(recs[i]))
             outcome == LinkOutcome(acc.projects, key)
         IN  IF outcome = "skip" THEN PayloadChildLoop(table, recs, i + 1, acc)
             ELSE IF outcome = "throw" THEN [acc EXCEPT !.thrown = TRUE]
             ELSE PayloadChildLoop(table, recs, i + 1,
                    [acc EXCEPT !.projects =
                        PushChild(@, ToPropertyKey(key), table, PayloadEntry(table, recs[i]))])

\* getProjectsPayload after its Promise.all: the synchronous pass.
getProjectsPayload(outs) ==
    LET p0 == PayloadProjectsLoop(outs[TABLE_PROJECTS], 1,
                 [thrown |-> FALSE, projects |-> EmptyObj, projectIdToKey |-> EmptyObj])
        p1 == PayloadChildLoop(TABLE_TASKS, outs[TABLE_TASKS], 1, p0)
        p2 == PayloadChildLoop(TABLE_TEAM, outs[TABLE_TEAM], 1, p1)
        p3 == PayloadChildLoop(TABLE_CRITICAL, outs[TABLE_CRITICAL], 1, p2)
    IN  PayloadChildLoop(TABLE_CASHFLOW, outs[TABLE_CASHFLOW], 1, p3)

\* parsePath: the pieces of the path after "airtable", empty pieces dropped; a
\* path without that piece gives no resource.
parsePath(path) ==
    LET parts == IF path.hasBase THEN SelectSeq(path.tail, LAMBDA p : p # "") ELSE <<>>
    IN  [resource |-> IF Len(parts) >= 1 THEN parts[1] ELSE "",
         id |-> IF Len(parts) >= 2 THEN parts[2] ELSE ""]

\* The events the create and update routes of airtable-with-cashflow.js take.
PayloadWriteRoute(ev) ==
    LET p == parsePath(ev.path)
    IN  /\ p.resource \in {"tasks", "cashflow"}
        /\ ev.httpMethod = "POST" \/ (ev.httpMethod = "PATCH" /\ p.id # "")

\* getProjectsPayload up to its await: Promise.all of the five fetchAll calls,
\* each run to its first request.
PayloadFanOut(s) ==
    [s EXCEPT !.pc = "fanout",
              !.fetch = [t \in Tables |-> BeginFetch],
              !.net = @ \o <<ListRequest(TABLE_PROJECTS, 0)>>
                        \o [i \in 1..Len(ChildTables) |-> ListRequest(ChildTables[i], 0)]]

\* The handler of airtable-with-cashflow.js from its entry to its first await
\* or return.
PayloadStart(s) ==
    IF event.httpMethod = "OPTIONS" THEN Reply(s, 204, [empty |-> TRUE])
    ELSE IF event.httpMethod = "GET" /\ parsePath(event.path).resource = ""
         THEN PayloadFanOut(s)
    ELSE Reply(s, 404, [ok |-> FALSE, error |-> Text("Ruta no encontrada")])

\* The body of the answer to OPTIONS: json(200, { ok: true }) in part_001, an
\* empty body in airtable.js.
OptionsBody(hv) == IF hv = "part_001" THEN [ok |-> TRUE] ELSE [empty |-> TRUE]

\* The configuration check written "if (!BASE_ID)".
BaseIdPresent == env.BASE_ID

\* if (!BASE_ID || !TOKEN) return json(500, ...)
ConfigPresent == env.BASE_ID /\ env.TOKEN

\* The handler from its entry to its first await or return.
StartOutcome(s, hv) ==
    LET route == Route(hv, event)
    IN  IF hv = "with_cashflow" THEN PayloadStart(s)
        ELSE IF event.httpMethod = "OPTIONS" THEN Reply(s, 200, OptionsBody(hv))
        ELSE IF ~ConfigPresent
             THEN Reply(s, 500, [ok |-> FALSE,
                                 error |-> Text("Missing env vars AIRTABLE_BASE_ID / AIRTABLE_TOKEN")])
        ELSE CASE route = "get" -> BeginMaps(s)
               [] route \in {"postTasks", "postCashflow"} -> StartCreate(s)
               [] route \in {"patchTasks", "patchCashflow"} -> StartPatch(s, hv, route)
               [] route = "deleteCashflow" -> StartDelete(s, hv)
               [] OTHER -> Reply(s, 404, [ok |-> FALSE, error |-> Text("Not found")])

\* The fields object of the create of a route.
CreateFields(hv, route, o, projectRecordId) ==
    IF route = "postTasks" THEN CreateTaskFields(o, projectRecordId)
    ELSE IF hv = "airtable_js" THEN CreateCashflowFieldsJs(o, projectRecordId)
    ELSE CreateCashflowFields(o, projectRecordId)

\* const projectRecordId = projectKeyToId[projectKey]
LookupProjectKey(projectKeyToId, projectKey) == GetProp(projectKeyToId, projectKey)

\* POST after buildProjectMaps: 400 on an unresolved key, else the create.
CreateAfterMaps(s, hv, route, m) ==
    LET o == ParseBody(event.body).v.o
        projectKey == Field(o, "projectKey")
        projectRecordId == LookupProjectKey(m.projectKeyToId, projectKey)
    IN  IF ~Truthy(projectRecordId)
        THEN Reply(s, 400, [ok |-> FALSE,
                            error |-> [prefix |-> "", message |-> UnknownKeyMessage(projectKey)]])
        ELSE SendWrite(s, "POST", RouteTable(route), "",
                       CreateFields(hv, route, o, projectRecordId))

\* PATCH after buildProjectMaps that ignores an unresolved key: the patch is
\* sent without Project.
PatchAfterMapsLenient(s, hv, route, m) ==
    LET o == ParseBody(event.body).v.o
        projectRecordId == LookupProjectKey(m.projectKeyToId, Field(o, "projectKey"))
    IN  SendWrite(s, "PATCH", RouteTable(route), RecordIdOf(Subpath(event.path)),
                  IF Truthy(projectRecordId)
                  THEN ("Project" :> Arr(<<projectRecordId>>)) @@ s.fields
                  ELSE s.fields)

\* PATCH after buildProjectMaps: throw on an unresolved key, else the patch
\* with fields["Project"] = [projectRecordId].
PatchAfterMaps(s, hv, route, m) ==
    LET o == ParseBody(event.body).v.o
        projectKey == Field(o, "projectKey")
        projectRecordId == LookupProjectKey(m.projectKeyToId, projectKey)
    IN  IF ~Truthy(projectRecordId)
        THEN Catch(s, [name |-> "Error", message |-> UnknownKeyMessage(projectKey)])
        ELSE SendWrite(s, "PATCH", RouteTable(route), RecordIdOf(Subpath(event.path)),
                       ("Project" :> Arr(<<projectRecordId>>)) @@ s.fields)

\* The handler from the return of buildProjectMaps to its next await or return.
AfterMaps(s, hv) ==
    LET route == Route(hv, event)
        m == BuildProjectMaps(s.fetch[TABLE_PROJECTS].out)
        s1 == [s EXCEPT !.maps = m]
    IN  CASE route = "get" -> FanOut(s1)
          [] route \in {"postTasks", "postCashflow"} -> CreateAfterMaps(s1, hv, route, m)
          [] OTHER -> PatchAfterMaps(s1, hv, route, m)

\* What Promise.all hands to the aggregation for a table: the records of its
\* fetchAll; in airtable.js a failed Cashflow fetch counts as [].
Fetched(f) == IF f.st = "done" THEN f.out ELSE <<>>
\* The fan-out with .catch(() => []) on every fetchAll of airtable.js.
ToleratedAll(hv, table) == hv = "airtable_js"

\* fetchAll(TABLE_CASHFLOW).catch(() => []) of airtable.js
Tolerated(hv, table) == hv = "airtable_js" /\ table = TABLE_CASHFLOW

\* The fan-in of Promise.race in place of Promise.all: the pass starts as soon
\* as one fetchAll has returned, the others counting as [].
SettledEarly(hv, f, table) == TRUE

Settled(hv, f, table) == f.st = "done" \/ (f.st = "failed" /\ Tolerated(hv, table))

\* return json(200, { ok: true, projects: payload.projects })
PayloadAnswer(s) ==
    LET p == getProjectsPayload([t \in Tables |-> Fetched(s.fetch[t])])
    IN  IF p.thrown THEN Catch(s, TypeError)
        ELSE Reply([s EXCEPT !.maps = [projectsRec |-> s.fetch[TABLE_PROJECTS].out,
                                       projectIdToKey |-> p.projectIdToKey,
                                       projectKeyToId |-> EmptyObj]],
                   200, [ok |-> TRUE, projects |-> p.projects])

\* The handler after the fan-in: the aggregation pass and the answer.
AfterFanIn(s, hv) ==
    LET agg == Aggregate(hv, s.maps, [t \in Tables |-> Fetched(s.fetch[t])])
    IN  IF hv = "with_cashflow" THEN PayloadAnswer(s)
        ELSE IF agg.thrown THEN Catch(s, RangeError)
        ELSE Reply(s, 200, [ok |-> TRUE, projects |-> agg.projects])

\* The answer of the backend to the pending list request of a table reaches
\* fetchAll; the code runs on to its next await or return.
ListOutcome(s, hv, table) ==
    LET g == FetchStep(s.fetch[table], table, ServePage(table, s.fetch[table].offset))
        f == IF hv = "with_cashflow" THEN FetchAllCatch(g) ELSE g
        s1 == [s EXCEPT !.fetch[table] = f,
                        !.net = IF f.st = "inflight"
                                THEN Append(@, ListRequest(table, f.offset))
                                ELSE @]
    IN  CASE s.pc = "maps" /\ table = TABLE_PROJECTS /\ f.st = "failed" -> Catch(s1, f.err)
          [] s.pc = "maps" /\ table = TABLE_PROJECTS /\ f.st = "done" -> AfterMaps(s1, hv)
          [] s.pc = "fanout" /\ f.st = "failed" /\ ~Tolerated(hv, table) -> Catch(s1, f.err)
          [] s.pc = "fanout" /\ \A u \in Tables : Settled(hv, s1.fetch[u], u) ->
                AfterFanIn(s1, hv)
          [] OTHER -> s1

\* The answer of the backend to the write request reaches airtableReq.
WriteOutcome(s) ==
    LET data == ParseWriteBody(writeAns.text)
    IN  IF ~Ok(writeAns.status) THEN Catch(s, WriteError(writeAns.status, data))
        ELSE IF event.httpMethod = "DELETE"
             THEN Reply(s, 200, [ok |-> TRUE, deleted |-> data])
             ELSE Reply(s, 200, [ok |-> TRUE, record |-> data])

Apply(s) ==
    /\ pc' = s.pc
    /\ fetch' = s.fetch
    /\ net' = s.net
    /\ maps' = s.maps
    /\ fields' = s.fields
    /\ response' = s.response
    /\ UNCHANGED <<variant, env, event, tables, writeAns, peer>>

\* The backend with no record stored.
EmptyStore == [records |-> <<>>, applied |-> <<>>]

\* The backend handles a write request it answers with ans: a refused request
\* changes nothing; an accepted PATCH merges the fields of the request into
\* the stored record, the other fields staying as they are; a DELETE removes
\* the record; a POST stores a record under the identifier it answers with.
BackendApply(st, req, ans) ==
    LET recs == st.records
        id == req.recordId
    IN  IF ~Ok(ans.status) THEN st
        ELSE [records |->
                CASE req.method = "PATCH" /\ id \in DOMAIN recs ->
                        [recs EXCEPT ![id] =
                            [F \in DOMAIN @ \cup DOMAIN req.fields |->
                                IF F \in DOMAIN req.fields THEN req.fields[F] ELSE @[F]]]
                  [] req.method = "DELETE" ->
                        [k \in DOMAIN recs \ {id} |-> recs[k]]
                  [] req.method = "POST" ->
                        [k \in DOMAIN recs \cup {"recNew"} |->
                            IF k = "recNew" THEN req.fields ELSE recs[k]]
                  [] OTHER -> recs,
              applied |-> Append(st.applied, req)]

Start ==
    /\ pc = "start"
    /\ ~(variant = "with_cashflow" /\ PayloadWriteRoute(event))
    /\ Apply(StartOutcome(Current, variant))
    /\ UNCHANGED store

ListResponse(table) ==
    /\ fetch[table].st = "inflight"
    /\ Apply(ListOutcome(Current, variant, table))
    /\ UNCHANGED store

\* The backend handles the pending write request and its answer reaches
\* airtableReq.
WriteResponse ==
    /\ pc = "write"
    /\ Apply(WriteOutcome(Current))
    /\ store' = BackendApply(store, net[Len(net)], writeAns)

\* No second invocation.
NoPeer == [pc |-> "absent"]

\* The invocation that runs, with all that belongs to it: the event it was
\* called with, the answers the backend gives to its requests, and the
\* locals of its call (every const and let of the handler is declared inside
\* the handler function).
Invocation ==
    [event |-> event, tables |-> tables, writeAns |-> writeAns, pc |-> pc,
     fetch |-> fetch, net |-> net, maps |-> maps, fields |-> fields,
     response |-> response]

\* The handler with projectIdToKey / projectKeyToId / projectsRec declared at
\* module level: the maps one invocation built are the maps the other reads.
SwitchSharedMaps ==
    /\ peer.pc # "absent"
    /\ event' = peer.event
    /\ tables' = peer.tables
    /\ writeAns' = peer.writeAns
    /\ pc' = peer.pc
    /\ fetch' = peer.fetch
    /\ net' = peer.net
    /\ fields' = peer.fields
    /\ response' = peer.response
    /\ peer' = Invocation
    /\ UNCHANGED <<variant, env, store, maps>>

\* The runtime resumes the other invocation: the next step is a continuation
\* of the invocation that was suspended, the one that ran is suspended with
\* its locals.  The backend (store) is the one thing both reach.
Switch ==
    /\ peer.pc # "absent"
    /\ event' = peer.event
    /\ tables' = peer.tables
    /\ writeAns' = peer.writeAns
    /\ pc' = peer.pc
    /\ fetch' = peer.fetch
    /\ net' = peer.net
    /\ maps' = peer.maps
    /\ fields' = peer.fields
    /\ response' = peer.response
    /\ peer' = Invocation
    /\ UNCHANGED <<variant, env, store>>

-----------------------------------------------------------------------------
(* Specifications *)

InitHandler ==
    /\ pc = "start"
    /\ fetch = [t \in Tables |-> IdleFetch]
    /\ net = <<>>
    /\ maps = NoMaps
    /\ fields = EmptyObj
    /\ response = NoResponse
    /\ peer = NoPeer
    /\ store = EmptyStore

BasePath == [hasBase |-> TRUE, tail |-> <<>>]

AllSet == [BASE_ID |-> TRUE, TOKEN |-> TRUE]

NoBody == [kind |-> "none"]

WriteAccepted == [status |-> 200, text |-> "{\"id\":\"recNew\"}"]

\* A record without a fields object, named after its place in the table.
PlainRecord(table, k, i) ==
    [id |-> table \o "-" \o ToString(k) \o "-" \o ToString(i), fields |-> Undef]

MaxPages == 2

\* A table served as a chain of n pages: page k returns the cursor of page
\* k + 1, the last page returns none.  Pages hold no or one record, in turn.
Chain(table, n, fill) ==
    [k \in 1..n |->
        [status |-> 200, text |-> "",
         records |-> [i \in 1..((k + fill) % 2) |-> PlainRecord(table, k, i)],
         offset |-> IF k < n THEN k + 1 ELSE 0]]

Chains(table, fills) == {Chain(table, n, fill) : n \in 1..MaxPages, fill \in fills}

\* GET against Projects, Tasks and Team of one to MaxPages pages each, and
\* Critical and Cashflow of one page.
InitFetch ==
    /\ variant = "part_001"
    /\ env = AllSet
    /\ event = [httpMethod |-> "GET", path |-> BasePath, body |-> NoBody]
    /\ writeAns = WriteAccepted
    /\ \E p \in Chains(TABLE_PROJECTS, {0, 1}), a \in Chains(TABLE_TASKS, {0, 1}),
          b \in Chains(TABLE_TEAM, {0}) :
            tables = [t \in Tables |->
                        CASE t = TABLE_PROJECTS -> p
                          [] t = TABLE_TASKS -> a
                          [] t = TABLE_TEAM -> b
                          [] t = TABLE_CRITICAL -> Chain(t, 1, 1)
                          [] OTHER -> Chain(t, 1, 0)]
    /\ InitHandler

NextRead == Start \/ \E t \in Tables : ListResponse(t)

SpecFetch == InitFetch /\ [][NextRead]_vars

-----------------------------------------------------------------------------
(* Pagination *)

\* The list requests issued for a table, in order.
ListRequestsOf(table) ==
    SelectSeq(net, LAMBDA r : r.kind = "list" /\ r.table = table)

RECURSIVE RecordsOfPages(_, _)
RecordsOfPages(pages, n) ==
    IF n = 0 THEN <<>> ELSE RecordsOfPages(pages, n - 1) \o pages[n].records

-----------------------------------------------------------------------------
(* GET against tables of one page each, with records of every shape *)

MaxProjects == 2
MaxChildren == 1

ProjectId(i) == "recP" \o ToString(i)

ProjectShapes == {"nofields", "emptykey", "key", "keyIsId", "badgantt"}

\* The i-th record of Projects.  Its Name is its identifier, so that the meta
\* block of an entry tells the record it was made from.
ProjectRecord(i, shape) ==
    LET id == ProjectId(i)
    IN  [id |-> id,
         fields |->
            CASE shape = "nofields" -> Undef
              [] shape = "emptykey" ->
                    Obj(("Project Key" :> Str("")) @@ ("Name" :> Str(id)))
              [] shape = "key" ->
                    Obj(("Project Key" :> Str("macro_lan")) @@ ("Name" :> Str(id))
                        @@ ("Gantt Start" :> Str("2024-03-01T23:30:00-05:00")))
              [] shape = "keyIsId" ->
                    Obj(("Project Key" :> Str("recP1")) @@ ("Name" :> Str(id)))
              [] OTHER ->
                    Obj(("Project Key" :> Str("micro_wan")) @@ ("Name" :> Str(id))
                        @@ ("Gantt End" :> Str("soon")))]

\* The field of a child record that reaches the output unchanged.
TagField(table) ==
    CASE table = TABLE_CRITICAL -> "Text"
      [] table = TABLE_CASHFLOW -> "Concept"
      [] OTHER -> "Name"

DateField(table) == IF table = TABLE_CASHFLOW THEN "Date" ELSE "Start Date"

ChildTableSet == {TABLE_TASKS, TABLE_TEAM, TABLE_CRITICAL, TABLE_CASHFLOW}

ChildShapes(table) ==
    CASE table = TABLE_TASKS ->
            {"nofields", "scalar", "list", "keystring", "unknown", "proto", "baddate"}
      [] table = TABLE_TEAM -> {"list", "unknown", "keystring"}
      [] table = TABLE_CRITICAL -> {"scalar", "proto", "keystring"}
      [] OTHER -> {"scalar", "baddate", "keystring"}

ChildLink(shape) ==
    CASE shape = "scalar" -> Str("recP1")
      [] shape = "list" -> Arr(<<Str("recP2"), Str("recP1")>>)
      [] shape = "keystring" -> Arr(<<Str("macro_lan")>>)
      [] shape = "unknown" -> Str("recX")
      [] shape = "proto" -> Str("constructor")
      [] OTHER -> Arr(<<Str("recP1")>>)

\* The i-th record of a child table.
ChildRecord(table, i, shape) ==
    LET id == table \o "-" \o ToString(i)
    IN  [id |-> id,
         fields |->
            IF shape = "nofields" THEN Undef
            ELSE Obj(("Project" :> ChildLink(shape)) @@ (TagField(table) :> Str(id))
                     @@ (DateField(table) :>
                            IF shape = "baddate" THEN Str("soon")
                            ELSE IF shape = "scalar" THEN Str("2024-03-01")
                            ELSE Str(""))
                     @@ ("Progress" :> IF shape = "scalar" THEN Str("abc") ELSE Str("50"))
                     @@ ("Amount" :> IF shape = "scalar" THEN Str("abc") ELSE Str("$1,200.50")))]

OnePage(records) ==
    <<[status |-> 200, text |-> "", records |-> records, offset |-> 0]>>

RecordSeqs(n, shapes) == UNION {[1..k -> shapes] : k \in 0..n}

\* GET with at most MaxProjects Projects records and at most MaxChildren child
\* records over the four child tables.
InitRead ==
    /\ variant = "part_001"
    /\ env = AllSet
    /\ event = [httpMethod |-> "GET", path |-> BasePath, body |-> NoBody]
    /\ writeAns = WriteAccepted
    /\ \E ps \in RecordSeqs(MaxProjects, ProjectShapes),
          a \in RecordSeqs(MaxChildren, ChildShapes(TABLE_TASKS)),
          b \in RecordSeqs(MaxChildren, ChildShapes(TABLE_TEAM)),
          c \in RecordSeqs(MaxChildren, ChildShapes(TABLE_CRITICAL)),
          d \in RecordSeqs(MaxChildren, ChildShapes(TABLE_CASHFLOW)) :
            /\ Len(a) + Len(b) + Len(c) + Len(d) <= MaxChildren
            /\ tables = [t \in Tables |->
                  CASE t = TABLE_PROJECTS ->
                          OnePage([i \in DOMAIN ps |-> ProjectRecord(i, ps[i])])
                    [] t = TABLE_TASKS ->
                          OnePage([i \in DOMAIN a |-> ChildRecord(t, i, a[i])])
                    [] t = TABLE_TEAM ->
                          OnePage([i \in DOMAIN b |-> ChildRecord(t, i, b[i])])
                    [] t = TABLE_CRITICAL ->
                          OnePage([i \in DOMAIN c |-> ChildRecord(t, i, c[i])])
                    [] OTHER ->
                          OnePage([i \in DOMAIN d |-> ChildRecord(t, i, d[i])])]
    /\ InitHandler

SpecRead == InitRead /\ [][NextRead]_vars

-----------------------------------------------------------------------------
(* Aggregation: what is left out *)

\* The GET has answered 200 with the project tree.
Answered200 == pc = "done" /\ response.statusCode = 200

\* The children sequence of a table in an entry of the tree.
ChildrenOf(entry, table) ==
    CASE table = TABLE_TASKS -> entry.tasks
      [] table = TABLE_TEAM -> entry.team
      [] table = TABLE_CRITICAL -> entry.critical
      [] OTHER -> entry.cashflow

\* The identifier of the record an output entry was made from.
EntryTag(table, e) ==
    CASE table \in {TABLE_TASKS, TABLE_CASHFLOW} -> e.recordId
      [] table = TABLE_TEAM -> e.name
      [] OTHER -> e

\* A record of a child table appears in the tree.
Appears(table, r, projects) ==
    \E k \in DOMAIN projects :
        \E i \in DOMAIN ChildrenOf(projects[k], table) :
            EntryTag(table, ChildrenOf(projects[k], table)[i]) = Str(r.id)

\* The linked-project reference of a child record: the value itself, or its
\* first element when it is a list.
Reference(r) ==
    LET proj == Field(FieldsOf(r), "Project")
    IN  IF proj.t = "arr" THEN (IF proj.a = <<>> THEN Undef ELSE proj.a[1]) ELSE proj

IsLookupId(ref) == ref.t = "str" /\ ref.s \in DOMAIN maps.projectIdToKey

Keyless(p) == ~Truthy(Field(FieldsOf(p), "Project Key"))

MapsBuilt == pc \in {"fanout", "done"} /\ fetch[TABLE_PROJECTS].st = "done"

\* (a) and (b) of C2: no entry of the tree is made from a keyless record, and
\* its identifier is in neither map.
KeylessExcluded ==
    \A j \in DOMAIN maps.projectsRec :
        LET p == maps.projectsRec[j]
        IN  Keyless(p) =>
                /\ p.id \notin DOMAIN maps.projectIdToKey
                /\ \A k \in DOMAIN maps.projectKeyToId : maps.projectKeyToId[k] # Str(p.id)
                /\ Answered200 =>
                      \A k \in DOMAIN response.body.projects :
                          response.body.projects[k].meta.name # Str(p.id)

\* The fetched children whose reference is the identifier of a keyless record.
LinkedToKeyless(t, i) ==
    \E j \in DOMAIN maps.projectsRec :
        /\ Keyless(maps.projectsRec[j])
        /\ Reference(fetch[t].out[i]) = Str(maps.projectsRec[j].id)

\* C2 as stated: a Projects record with a missing or empty "Project Key" gives
\* no entry of the tree, is in neither map, and every child linked to its
\* identifier is dropped.
C2_ExclusionStated ==
    MapsBuilt =>
        /\ KeylessExcluded
        /\ Answered200 =>
              \A t \in ChildTableSet : \A i \in DOMAIN fetch[t].out :
                  LinkedToKeyless(t, i) =>
                      ~Appears(t, fetch[t].out[i], response.body.projects)

\* C2 amended: as stated, but a child linked to the identifier of a keyless
\* record is dropped unless that identifier is itself the "Project Key" of
\* another record.
C2_Exclusion ==
    MapsBuilt =>
        /\ KeylessExcluded
        /\ Answered200 =>
              \A t \in ChildTableSet : \A i \in DOMAIN fetch[t].out :
                  (/\ LinkedToKeyless(t, i)
                   /\ Reference(fetch[t].out[i]).s \notin DOMAIN response.body.projects)
                  => ~Appears(t, fetch[t].out[i], response.body.projects)

\* A 200 answer with a project in the tree, a keyless record carrying fields
\* and a child linked to it.
C2_Witness ==
    /\ Answered200
    /\ DOMAIN response.body.projects # {}
    /\ \E j \in DOMAIN maps.projectsRec :
          Keyless(maps.projectsRec[j]) /\ Truthy(maps.projectsRec[j].fields)
    /\ \E t \in ChildTableSet : \E i \in DOMAIN fetch[t].out :
          /\ LinkedToKeyless(t, i)
          /\ Reference(fetch[t].out[i]).s \notin DOMAIN response.body.projects

\* C6: when every table is fetched successfully the GET answers 200 with the
\* tree, whatever the field values of the records.
C6_BestEffort ==
    (pc = "done" /\ \A t \in Tables : fetch[t].st = "done") => response.statusCode = 200

-----------------------------------------------------------------------------
(* The write routes, with request bodies of every shape *)

MaxBodyFields == 2

Next == Start \/ (\E t \in Tables : ListResponse(t)) \/ WriteResponse

PathOf(tail) == [hasBase |-> TRUE, tail |-> tail]

\* The request field names a PATCH translates.
RequestNames(table) == {table[i][1] : i \in DOMAIN table}

\* Values a request field is given: empty, null, and a text that is a number.
BodyValues == {Str(""), Null, Str("50")}

\* projectKey of a body: absent, empty, the key of a Projects record, a key
\* of no record, and a key of no record that names a member of Object.prototype.
KeyChoices == {Undef, Str(""), Str("macro_lan"), Str("nonexistent"), Str("constructor")}

WithKey(o, k) == IF k = Undef THEN o ELSE ("projectKey" :> k) @@ o

\* Projects as the write routes find it: one keyed record, one with an empty key.
KnownProjects == OnePage(<<ProjectRecord(1, "key"), ProjectRecord(2, "emptykey")>>)

EmptyTable == OnePage(<<>>)

\* The routes that read a body: method, subpath and the translation table
\* whose request fields the body draws from.
BodyRoutes ==
    {[m |-> "POST", tail |-> <<"", "tasks">>, table |-> TaskPatchTable],
     [m |-> "PATCH", tail |-> <<"", "tasks", "recT1">>, table |-> TaskPatchTable],
     [m |-> "POST", tail |-> <<"", "cashflow">>, table |-> CashflowPatchTable],
     [m |-> "PATCH", tail |-> <<"", "cashflow", "recC1">>, table |-> CashflowPatchTable]}

\* A write route of part_001 with a body of at most MaxBodyFields request
\* fields and any projectKey, or the DELETE of a cashflow record.
InitWrite ==
    /\ variant = "part_001"
    /\ env = AllSet
    /\ \/ \E r \in BodyRoutes, k \in KeyChoices :
            \E S \in SUBSET RequestNames(r.table) :
                /\ Cardinality(S) <= MaxBodyFields
                /\ \E o \in [S -> BodyValues] :
                        event = [httpMethod |-> r.m, path |-> PathOf(r.tail),
                                 body |-> [kind |-> "object", o |-> WithKey(o, k)]]
       \/ event = [httpMethod |-> "DELETE", path |-> PathOf(<<"", "cashflow", "recC1">>),
                   body |-> NoBody]
    /\ writeAns = WriteAccepted
    /\ tables = [t \in Tables |-> IF t = TABLE_PROJECTS THEN KnownProjects ELSE EmptyTable]
    /\ InitHandler

SpecWrite == InitWrite /\ [][Next]_vars

\* The write requests issued, in order.
WriteRequests == SelectSeq(net, LAMBDA r : r.kind = "write")

IsRoute(m, name, withId) ==
    /\ event.httpMethod = m
    /\ event.path.hasBase
    /\ event.path.tail = IF withId THEN <<"", name, event.path.tail[Len(event.path.tail)]>>
                         ELSE <<"", name>>

\* The backend name of each request field of a task.
TaskBackendName(n) ==
    CASE n = "name" -> "Name"
      [] n = "description" -> "Description"
      [] n = "owner" -> "Owner"
      [] n = "status" -> "Status"
      [] n = "progress" -> "Progress"
      [] n = "startDate" -> "Start Date"
      [] n = "endDate" -> "End Date"

TaskRequestNames ==
    {"name", "description", "owner", "status", "progress", "startDate", "endDate"}

\* C3: the backend field names of the patch PATCH /tasks/{recordId} sends are
\* exactly the translations of the request fields present in the body, plus
\* "Project" iff a (non-empty) projectKey is supplied; a body with status only
\* gives a patch with the one field Status.
C3_PartialUpdate ==
    (IsRoute("PATCH", "tasks", TRUE) /\ event.body.kind = "object") =>
        \A i \in DOMAIN WriteRequests :
            /\ WriteRequests[i].method = "PATCH"
            /\ DOMAIN WriteRequests[i].fields =
                  {TaskBackendName(n) : n \in DOMAIN event.body.o \cap TaskRequestNames}
                  \cup (IF "projectKey" \in DOMAIN event.body.o
                           /\ event.body.o["projectKey"] # Str("")
                        THEN {"Project"} ELSE {})

\* A PATCH /tasks/{recordId} whose body holds status only has sent its patch,
\* of the one field Status.
C3_Witness ==
    /\ IsRoute("PATCH", "tasks", TRUE)
    /\ event.body.kind = "object"
    /\ DOMAIN event.body.o = {"status"}
    /\ Len(WriteRequests) = 1
    /\ DOMAIN WriteRequests[1].fields = {"Status"}
    /\ pc = "done"

\* The body carries a non-empty projectKey that is no key of projectKeyToId.
UnknownKeyInBody ==
    /\ event.body.kind = "object"
    /\ "projectKey" \in DOMAIN event.body.o
    /\ Truthy(event.body.o["projectKey"])
    /\ event.body.o["projectKey"].s \notin DOMAIN maps.projectKeyToId

ProjectsFetched == fetch[TABLE_PROJECTS].st = "done"

\* C4: POST /tasks and POST /cashflow with a non-empty projectKey that is no key
\* of projectKeyToId answer 400 with an error naming the key, and no write
\* request is issued.
C4_UnknownKeyOnCreate ==
    ((IsRoute("POST", "tasks", FALSE) \/ IsRoute("POST", "cashflow", FALSE))
        /\ ProjectsFetched /\ UnknownKeyInBody)
    => /\ Len(WriteRequests) = 0
       /\ pc = "done"
       /\ response.statusCode = 400
       /\ response.body.error.message.key = event.body.o["projectKey"]

\* C5: PATCH /tasks/{recordId} and PATCH /cashflow/{recordId} with a projectKey
\* that does not resolve answer 400, as the creates do, and no patch request
\* is issued.
C5_UnknownKeyOnUpdate ==
    ((IsRoute("PATCH", "tasks", TRUE) \/ IsRoute("PATCH", "cashflow", TRUE))
        /\ ProjectsFetched /\ UnknownKeyInBody)
    => /\ Len(WriteRequests) = 0
       /\ pc = "done"
       /\ response.statusCode = 400

-----------------------------------------------------------------------------
(* Every route of both handlers, with and without configuration, against a
   backend that answers or refuses *)

Methods == {"GET", "POST", "PATCH", "DELETE", "OPTIONS", "PUT"}

\* Paths outside the base, the base itself with and without a trailing slash,
\* and the subpaths of the interface, with an empty record identifier too.
Paths ==
    {[hasBase |-> FALSE, tail |-> <<>>], BasePath, PathOf(<<"">>),
     PathOf(<<"", "projects">>), PathOf(<<"", "unknown">>),
     PathOf(<<"", "tasks">>), PathOf(<<"", "tasks", "recT1">>), PathOf(<<"", "tasks", "">>),
     PathOf(<<"", "cashflow">>), PathOf(<<"", "cashflow", "recC1">>),
     PathOf(<<"", "cashflow", "">>)}

RouteBodies ==
    {NoBody, [kind |-> "invalid"], [kind |-> "null"],
     [kind |-> "object", o |-> EmptyObj],
     [kind |-> "object", o |-> [projectKey |-> Str("macro_lan"), name |-> Str("50")]],
     [kind |-> "object", o |-> [projectKey |-> Str("nonexistent")]],
     [kind |-> "object", o |-> [projectKey |-> Str("constructor")]]}

Envs == [BASE_ID : BOOLEAN, TOKEN : BOOLEAN]

Variants == {"part_001", "airtable_js"}

\* A page the backend refuses.
Refused(status, text) == [status |-> status, text |-> text, records |-> <<>>, offset |-> 0]

\* A table whose first page is refused, and one whose second page is.
FailingTable == <<Refused(500, "{\"error\":\"SERVER_ERROR\"}")>>

FailingSecondPage ==
    <<[status |-> 200, text |-> "", records |-> <<ProjectRecord(1, "key")>>, offset |-> 2],
      Refused(429, "Too Many Requests")>>

\* Projects on two pages, the keyed record on the second.
TwoPageProjects ==
    <<[status |-> 200, text |-> "", records |-> <<ProjectRecord(2, "emptykey")>>, offset |-> 2],
      [status |-> 200, text |-> "", records |-> <<ProjectRecord(1, "key")>>, offset |-> 0]>>

LinkedChild(t) == OnePage(<<ChildRecord(t, 1, "keystring")>>)

WriteAnswers ==
    {WriteAccepted, [status |-> 200, text |-> ""],
     [status |-> 422, text |-> "{ \"error\": \"INVALID\" }"],
     [status |-> 502, text |-> "<html>Bad Gateway</html>"]}

\* Every event, every configuration, a backend that answers every request.
InitAnyEvent ==
    /\ env \in Envs
    /\ event \in [httpMethod : Methods, path : Paths, body : RouteBodies]
    /\ writeAns = WriteAccepted
    /\ tables = [t \in Tables |-> IF t = TABLE_PROJECTS THEN KnownProjects ELSE LinkedChild(t)]

\* GET against a backend that refuses pages of at most two child tables, or a
\* page of Projects.
InitRefusedList ==
    /\ env = AllSet
    /\ event = [httpMethod |-> "GET", path |-> BasePath, body |-> NoBody]
    /\ writeAns = WriteAccepted
    /\ \E p \in {KnownProjects, FailingTable, FailingSecondPage},
          F \in {T \in SUBSET ChildTableSet : Cardinality(T) <= 2} :
            tables = [t \in Tables |->
                        IF t = TABLE_PROJECTS THEN p
                        ELSE IF t \in F THEN FailingTable
                        ELSE LinkedChild(t)]

\* The write routes against a backend that accepts or refuses the write, and
\* serves Projects on one or two pages or refuses a page of it.
InitRefusedWrite ==
    /\ env = AllSet
    /\ event \in [httpMethod : {"POST", "PATCH", "DELETE"},
                  path : {PathOf(<<"", "tasks">>), PathOf(<<"", "tasks", "recT1">>),
                          PathOf(<<"", "cashflow">>), PathOf(<<"", "cashflow", "recC1">>)},
                  body : RouteBodies]
    /\ writeAns \in WriteAnswers
    /\ \E p \in {KnownProjects, TwoPageProjects, FailingTable, FailingSecondPage} :
            tables = [t \in Tables |-> IF t = TABLE_PROJECTS THEN p ELSE EmptyTable]

InitRoute ==
    /\ variant \in Variants
    /\ InitAnyEvent \/ InitRefusedList \/ InitRefusedWrite
    /\ InitHandler

SpecRoute == InitRoute /\ [][Next]_vars

ConfigAbsent == ~env.BASE_ID \/ ~env.TOKEN

\* C7 as stated: with AIRTABLE_BASE_ID or AIRTABLE_TOKEN absent every
\* invocation of part_001, OPTIONS included, answers 500 and issues no backend
\* request.
C7_MissingCredentialsStated ==
    (variant = "part_001" /\ ConfigAbsent) =>
        /\ net = <<>>
        /\ pc = "done" => response.statusCode = 500

\* C7: with AIRTABLE_BASE_ID or AIRTABLE_TOKEN absent an invocation of part_001
\* answers at its first step, 500 for every method but OPTIONS and 200 for
\* OPTIONS, whatever the path, and issues no backend request.
C7_MissingCredentials ==
    (variant = "part_001" /\ ConfigAbsent) =>
        /\ net = <<>>
        /\ pc \in {"start", "done"}
        /\ pc = "done" =>
              response.statusCode = IF event.httpMethod = "OPTIONS" THEN 200 ELSE 500

\* A PATCH of a task with the token absent has been answered 500.
C7_Witness ==
    /\ variant = "part_001"
    /\ env = [BASE_ID |-> TRUE, TOKEN |-> FALSE]
    /\ event.httpMethod = "PATCH"
    /\ event.path = PathOf(<<"", "tasks", "recT1">>)
    /\ pc = "done"
    /\ response.statusCode = 500
    /\ net = <<>>

\* The list requests of a table that were refused, as <<status, body>> of the
\* refusal: the request fetchAll waited for when it failed.
RefusedPage(t) == tables[t][IF fetch[t].offset = 0 THEN 1 ELSE fetch[t].offset]

RefusedLists ==
    {<<RefusedPage(t).status, RefusedPage(t).text>> :
        t \in {u \in Tables : fetch[u].st = "failed"}}

\* The write request was answered, and refused.
WriteRefused ==
    /\ Len(WriteRequests) > 0
    /\ pc # "write"
    /\ ~(writeAns.status \in 200..299)

\* The number of requests of net equal to its i-th.
Repeats(i) == Cardinality({j \in DOMAIN net : net[j] = net[i]})

\* The error of the answer carries the status and the body of a refusal.
CarriesRefusal(error) ==
    /\ "status" \in DOMAIN error.message
    /\ \/ <<error.message.status, error.message.body>> \in RefusedLists
       \/ /\ WriteRefused
          /\ error.message.status = writeAns.status
          /\ error.message.body = ParseWriteBody(writeAns.text)

\* C9: in part_001, once a backend request (a list page or a write) is refused
\* the invocation has answered 500 with ok false and an error that carries the
\* status and the body of a refusal, the answer holds no projects tree and no
\* record, and no request is ever issued twice.
C9_UpstreamFailure ==
    variant = "part_001" =>
        /\ \A i \in DOMAIN net : Repeats(i) = 1
        /\ (RefusedLists # {} \/ WriteRefused) =>
              /\ pc = "done"
              /\ response.statusCode = 500
              /\ response.body.ok = FALSE
              /\ CarriesRefusal(response.body.error)
              /\ DOMAIN response.body = {"ok", "error"}

\* The write of a PATCH of part_001 was refused with 422 and a JSON body, and
\* the answer is 500 with that body in its error.
C9_Witness ==
    /\ variant = "part_001"
    /\ WriteRefused
    /\ writeAns.status = 422
    /\ event.httpMethod = "PATCH"
    /\ response.statusCode = 500
    /\ response.body.error.message.body = Obj([error |-> Str("INVALID")])

\* An answer body that is { ok: false, error: <string> }.
ErrorEnvelope(body) ==
    /\ DOMAIN body = {"ok", "error"}
    /\ body.ok = FALSE
    /\ DOMAIN body.error = {"prefix", "message"}

\* The handler waits for an answer of the backend that is on its way.
Awaiting ==
    \/ pc = "start"
    \/ pc = "maps" /\ fetch[TABLE_PROJECTS].st = "inflight"
    \/ pc = "fanout" /\ \E t \in ChildTableSet : fetch[t].st = "inflight"
    \/ pc = "write" /\ Len(WriteRequests) = 1

\* C10: in part_001 and in airtable.js, for every event and every backend that
\* answers, the handler either still waits for an answer, with no response
\* yet, or has resolved with one response; its status is 200, 400, 404 or 500
\* and a body of another status than 200 is { ok: false, error: <string> }; a
\* response, once given, never changes.
C10_ErrorBoundary ==
    /\ [](/\ pc # "done" => (Awaiting /\ response = NoResponse)
          /\ pc = "done" =>
                /\ response.statusCode \in {200, 400, 404, 500}
                /\ response.statusCode # 200 => ErrorEnvelope(response.body))
    /\ [][response # NoResponse => response' = response]_vars

\* A POST of a body that is not JSON has been answered 500 by airtable.js.
C10_Witness ==
    /\ variant = "airtable_js"
    /\ event.httpMethod = "POST"
    /\ event.body.kind = "invalid"
    /\ pc = "done"
    /\ response.statusCode = 500
    /\ ErrorEnvelope(response.body)

-----------------------------------------------------------------------------
(* Aggregation: the entries of the tree *)

\* The record of a table an entry of the tree was made from.
SourceOf(table, e) ==
    CHOOSE r \in {fetch[table].out[i] : i \in DOMAIN fetch[table].out} :
        Str(r.id) = EntryTag(table, e)

\* out is the number the claim gives for the source value src: a number, 0
\* for an absent or non-numeric source, 50 for "50".
Coerced(src, out) ==
    /\ out.t = "num"
    /\ src \in {Undef, Str("abc")} => out = Num(0)
    /\ src = Str("50") => out = Num(50)

\* C11: in the tree of a GET the progress of every task and the amount of
\* every cashflow entry is a number: 0 when the Progress / Amount field of the
\* record is absent or not numeric ("abc"), the number when it is a numeric
\* string ("50").
C11_NumericCoercion ==
    Answered200 =>
        \A k \in DOMAIN response.body.projects :
            LET p == response.body.projects[k]
            IN  /\ \A i \in DOMAIN p.tasks :
                      Coerced(Field(FieldsOf(SourceOf(TABLE_TASKS, p.tasks[i])), "Progress"),
                              p.tasks[i].progress)
                /\ \A i \in DOMAIN p.cashflow :
                      Coerced(Field(FieldsOf(SourceOf(TABLE_CASHFLOW, p.cashflow[i])), "Amount"),
                              p.cashflow[i].amount)

\* The link of a child record resolves to the project key K: its reference is
\* a record identifier that projectIdToKey maps to K, or it is no such
\* identifier (and no member of Object.prototype) and is K itself.
ResolvesTo(r, K) ==
    LET ref == Reference(r)
    IN  /\ ref.t = "str"
        /\ IF IsLookupId(ref) THEN maps.projectIdToKey[ref.s] = Str(K)
           ELSE ref.s = K /\ ref.s \notin ObjectPrototypeProps

\* The places <<K, j>> of the tree where the entry of a record of a table is.
PlacesOf(table, r, projects) ==
    {kj \in UNION {{<<k, j>> : j \in DOMAIN ChildrenOf(projects[k], table)} :
                        k \in DOMAIN projects} :
        EntryTag(table, ChildrenOf(projects[kj[1]], table)[kj[2]]) = Str(r.id)}

\* C12: in the tree of a GET, for every project key K and child kind, the
\* sequence under K holds exactly one entry for each fetched record of that
\* kind whose link resolves to K and no other entry; so a fetched record has
\* at most one entry in the whole tree.
C12_ExactMembership ==
    Answered200 =>
        \A t \in ChildTableSet :
            LET recs == fetch[t].out
                projects == response.body.projects
            IN  /\ \A K \in DOMAIN projects :
                      LET seq == ChildrenOf(projects[K], t)
                          R == {i \in DOMAIN recs : ResolvesTo(recs[i], K)}
                      IN  /\ Len(seq) = Cardinality(R)
                          /\ \A i \in R :
                                Cardinality({j \in DOMAIN seq :
                                    EntryTag(t, seq[j]) = Str(recs[i].id)}) = 1
                /\ \A i \in DOMAIN recs : Cardinality(PlacesOf(t, recs[i], projects)) <= 1

\* Projects holds recP1 with the key macro_lan and another keyed record, one
\* task is linked to recP1, and the tree has that task alone under macro_lan.
C12_Witness ==
    /\ Answered200
    /\ Cardinality(DOMAIN response.body.projects) = 2
    /\ Len(fetch[TABLE_TASKS].out) = 1
    /\ Reference(fetch[TABLE_TASKS].out[1]) = Str("recP1")
    /\ Len(response.body.projects["macro_lan"].tasks) = 1
    /\ response.body.projects["macro_lan"].tasks[1].recordId = Str(fetch[TABLE_TASKS].out[1].id)

-----------------------------------------------------------------------------
(* GET against a child table of several records on one or two pages *)

MaxOrdered == 2

\* The links of the records: to recP1 (key macro_lan), to recP2 first (key
\* recP1), and to no project.
OrderedLinks == {"scalar", "list", "unknown"}

TwoKeyedProjects == OnePage(<<ProjectRecord(1, "key"), ProjectRecord(2, "keyIsId")>>)

\* The records on one page, or cut after the c-th into two pages.
CutPages(recs, c) ==
    IF c > Len(recs) THEN OnePage(recs)
    ELSE <<[status |-> 200, text |-> "", records |-> SubSeq(recs, 1, c), offset |-> 2],
           [status |-> 200, text |-> "", records |-> SubSeq(recs, c + 1, Len(recs)),
            offset |-> 0]>>

\* One child table holds up to MaxOrdered records, with identifiers in any
\* order and any of the links, on one page or cut into two.
InitOrder ==
    /\ variant = "part_001"
    /\ env = AllSet
    /\ event = [httpMethod |-> "GET", path |-> BasePath, body |-> NoBody]
    /\ writeAns = WriteAccepted
    /\ \E u \in ChildTableSet, n \in 0..MaxOrdered :
          \E ids \in [1..n -> 1..MaxOrdered], links \in [1..n -> OrderedLinks], c \in 0..(n + 1) :
            /\ \A i, j \in 1..n : i # j => ids[i] # ids[j]
            /\ tables = [t \in Tables |->
                  CASE t = TABLE_PROJECTS -> TwoKeyedProjects
                    [] t = u -> CutPages([i \in 1..n |-> ChildRecord(u, ids[i], links[i])], c)
                    [] OTHER -> EmptyTable]
    /\ InitHandler

SpecOrder == InitOrder /\ [][NextRead]_vars

\* The record identifiers of the entries of a sequence of the tree.
TagsOf(table, seq) == [j \in DOMAIN seq |-> EntryTag(table, seq[j])]

\* The identifiers of the records of the pages of a table whose link resolves
\* to K, in page order and then in-page order.
ResolvedIds(table, K) ==
    LET all == RecordsOfPages(tables[table], Len(tables[table]))
        sel == SelectSeq(all, LAMBDA r : ResolvesTo(r, K))
    IN  [j \in DOMAIN sel |-> Str(sel[j].id)]

\* C13: in the tree of a GET the entries of each project and child kind are in
\* the order of their source records in the pages of the table (page order,
\* then in-page order); nothing is sorted.
C13_OrderPreserved ==
    Answered200 =>
        \A t \in ChildTableSet : \A K \in DOMAIN response.body.projects :
            TagsOf(t, ChildrenOf(response.body.projects[K], t)) = ResolvedIds(t, K)

\* Two records of a table, the first on the first page with the greater
\* identifier, are both under macro_lan, in page order.
C13_Witness ==
    /\ Answered200
    /\ \E t \in ChildTableSet :
          /\ Len(tables[t]) = 2
          /\ Len(tables[t][1].records) = 1
          /\ Len(tables[t][2].records) = 1
          /\ tables[t][1].records[1].id = t \o "-2"
          /\ tables[t][2].records[1].id = t \o "-1"
          /\ Len(ChildrenOf(response.body.projects["macro_lan"], t)) = 2

\* The answer to a GET as a function of the backend's pages alone: the maps
\* and the pass over the records of all pages of each table, in page order.
AnswerOfPages ==
    LET all == [t \in Tables |-> RecordsOfPages(tables[t], Len(tables[t]))]
        agg == Aggregate(variant, BuildProjectMaps(all[TABLE_PROJECTS]), all)
    IN  IF agg.thrown
        THEN [statusCode |-> 500, body |-> [ok |-> FALSE, error |-> ErrorString(RangeError)]]
        ELSE [statusCode |-> 200, body |-> [ok |-> TRUE, projects |-> agg.projects]]

\* C14: the response of a GET is determined by the pages the backend serves:
\* whatever the order in which the answers to the Tasks, Team, Critical and
\* Cashflow requests, page by page, arrive, the response is the same, so two
\* invocations against the same pages give identical bodies.
C14_Determinism ==
    pc = "done" => response = AnswerOfPages

\* A GET over a child table of two pages, a record on each, has answered with
\* both records in the tree.
C14_Witness ==
    /\ Answered200
    /\ Len(net) = 6
    /\ \E t \in ChildTableSet :
          /\ Len(tables[t]) = 2
          /\ Len(tables[t][1].records) = 1
          /\ Len(fetch[t].out) = 2
          /\ \E K \in DOMAIN response.body.projects :
                Len(ChildrenOf(response.body.projects[K], t)) >= 1

-----------------------------------------------------------------------------
(* The routes of the interface *)

\* The configuration is present, every list page is served and the write is
\* accepted.
BackendServes ==
    /\ env = AllSet
    /\ writeAns.status \in 200..299
    /\ \A t \in Tables : \A k \in DOMAIN tables[t] : tables[t][k].status \in 200..299

\* C15: in part_001 a DELETE of <base>/tasks/{recordId} with a non-empty
\* recordId issues exactly one delete request for that record of the Tasks
\* table and, the backend accepting it, is answered 200 with {ok: true, deleted}.
C15_DeleteTask ==
    (/\ variant = "part_001"
     /\ BackendServes
     /\ event.httpMethod = "DELETE"
     /\ event.path = PathOf(<<"", "tasks", "recT1">>)
     /\ pc = "done")
    => /\ response.statusCode = 200
       /\ DOMAIN response.body = {"ok", "deleted"}
       /\ Len(WriteRequests) = 1
       /\ WriteRequests[1].method = "DELETE"
       /\ WriteRequests[1].table = TABLE_TASKS
       /\ WriteRequests[1].recordId = "recT1"

\* A request of the tasks endpoints of the header of airtable.js that the
\* backend would serve: POST /tasks with a known projectKey, PATCH and DELETE
\* of /tasks/recT1.
TasksEndpoint ==
    \/ /\ event.httpMethod = "POST"
       /\ event.path = PathOf(<<"", "tasks">>)
       /\ event.body = [kind |-> "object",
                        o |-> [projectKey |-> Str("macro_lan"), name |-> Str("50")]]
    \/ /\ event.httpMethod = "PATCH"
       /\ event.path = PathOf(<<"", "tasks", "recT1">>)
       /\ event.body.kind = "object"
       /\ "projectKey" \notin DOMAIN event.body.o
    \/ /\ event.httpMethod = "DELETE"
       /\ event.path = PathOf(<<"", "tasks", "recT1">>)

\* C16: the handler airtable.js exports serves the tasks endpoints of its
\* header: POST /tasks, PATCH /tasks/:id and DELETE /tasks/:id each issue one
\* write request and are answered 200, not 404, when the backend accepts.
C16_RouteCoverage ==
    (variant = "airtable_js" /\ BackendServes /\ TasksEndpoint /\ pc = "done")
    => /\ response.statusCode = 200
       /\ Len(WriteRequests) = 1

\* The path is the base path followed by /name/{id}, the id possibly empty.
UnderBase(path, name) ==
    path.hasBase /\ Len(path.tail) = 3 /\ path.tail[1] = "" /\ path.tail[2] = name

\* The (method, path) pairs of the interface table for part_001.
InterfaceRoute(ev) ==
    \/ ev.httpMethod = "OPTIONS"
    \/ ev.httpMethod = "GET"
          /\ ev.path \in {BasePath, PathOf(<<"">>), PathOf(<<"", "projects">>)}
    \/ ev.httpMethod = "POST"
          /\ ev.path \in {PathOf(<<"", "tasks">>), PathOf(<<"", "cashflow">>)}
    \/ ev.httpMethod = "PATCH"
          /\ (UnderBase(ev.path, "tasks") \/ UnderBase(ev.path, "cashflow"))
    \/ ev.httpMethod = "DELETE" /\ UnderBase(ev.path, "cashflow")

\* C17: part_001 with configuration present answers 404, and issues no backend
\* request, for every request whose method and path are no route of the
\* interface table; so for a GET whose path does not start with the base path.
C17_UnknownRoute ==
    (variant = "part_001" /\ env = AllSet /\ ~InterfaceRoute(event))
    => /\ net = <<>>
       /\ pc = "done" => response.statusCode = 404

-----------------------------------------------------------------------------
(* The field sets of the writes *)

\* A value that clears a backend field: "" or null, and 0 for a number field.
Cleared(rule, v) == v \in {Str(""), Null} \/ (rule = "number" /\ v = Num(0))

\* Every request field of the table that the body holds as "" or null is
\* cleared in the fields of the write request.
ClearsEmpty(table, req) ==
    \A i \in DOMAIN table :
        (table[i][1] \in DOMAIN event.body.o
            /\ event.body.o[table[i][1]] \in {Str(""), Null})
        => /\ table[i][2] \in DOMAIN req.fields
           /\ Cleared(table[i][3], req.fields[table[i][2]])

\* C18: in part_001 a PATCH of a task or of a cashflow entry sends, for every
\* updatable field the body holds as "" or null, an empty value ("" or null)
\* for the backend field: the field is cleared, no default takes its place.
C18_ExplicitEmptyClears ==
    \A i \in DOMAIN WriteRequests :
        /\ IsRoute("PATCH", "tasks", TRUE) => ClearsEmpty(TaskPatchTable, WriteRequests[i])
        /\ IsRoute("PATCH", "cashflow", TRUE) => ClearsEmpty(CashflowPatchTable, WriteRequests[i])

\* Rows <<request field, backend field, kind, default>> of the creates.
TaskCreateRows ==
    {<<"name", "Name", "text", Str("")>>,
     <<"description", "Description", "text", Str("")>>,
     <<"owner", "Owner", "text", Str("")>>,
     <<"status", "Status", "text", Str("pending")>>,
     <<"progress", "Progress", "number", Num(0)>>,
     <<"startDate", "Start Date", "date", Undef>>,
     <<"endDate", "End Date", "date", Undef>>}

CashflowCreateRows ==
    {<<"concept", "Concept", "text", Str("")>>,
     <<"date", "Date", "date", Undef>>,
     <<"type", "Type", "text", Str("")>>,
     <<"amount", "Amount", "number", Num(0)>>,
     <<"currency", "Currency", "text", Str("USD")>>,
     <<"party", "Party", "text", Str("")>>,
     <<"status", "Status", "text", Str("")>>,
     <<"notes", "Notes", "text", Str("")>>,
     <<"relatedTask", "Relacionado a tarea", "text", Str("")>>}

\* A request field is supplied: present with a value that is not "" or null.
Supplied(o, n) == n \in DOMAIN o /\ o[n] \notin {Str(""), Null}

\* The value of a supplied request field as the backend receives it: itself,
\* a numeric string of a number field as its number.
SuppliedValue(kind, v) == IF kind = "number" /\ v = Str("50") THEN Num(50) ELSE v

\* The fields of a create are the translation of the body by the rows, with
\* Project the one-element list of the identifier of a Projects record whose
\* "Project Key" is the projectKey of the body.
TranslatedCreate(rows, o, flds) ==
    /\ DOMAIN flds = {"Project"} \cup {r[2] : r \in {q \in rows : q[3] # "date" \/ Supplied(o, q[1])}}
    /\ \E i \in DOMAIN fetch[TABLE_PROJECTS].out :
          /\ Field(FieldsOf(fetch[TABLE_PROJECTS].out[i]), "Project Key") = o["projectKey"]
          /\ flds["Project"] = Arr(<<Str(fetch[TABLE_PROJECTS].out[i].id)>>)
    /\ \A r \in rows :
          IF Supplied(o, r[1]) THEN flds[r[2]] = SuppliedValue(r[3], o[r[1]])
          ELSE r[3] # "date" => flds[r[2]] = r[4]

\* The projectKey of the body is a key of projectKeyToId.
KnownKeyInBody ==
    /\ event.body.kind = "object"
    /\ "projectKey" \in DOMAIN event.body.o
    /\ event.body.o["projectKey"].t = "str"
    /\ event.body.o["projectKey"].s \in DOMAIN maps.projectKeyToId

\* C19: in part_001 a POST /tasks or POST /cashflow whose projectKey resolves
\* issues one create request whose Project is [id], id the identifier of the
\* Projects record of that key, with every supplied field under its backend
\* name with its value and every unspecified optional non-date field at its
\* default ("" for text, "pending" for the Status of a task, 0 for Progress and
\* Amount, "USD" for Currency); the answer is 200 with ok true and the record.
C19_CreateTranslation ==
    \A name \in {"tasks", "cashflow"} :
        (IsRoute("POST", name, FALSE) /\ ProjectsFetched /\ KnownKeyInBody)
        => /\ Len(WriteRequests) = 1
           /\ WriteRequests[1].method = "POST"
           /\ WriteRequests[1].table = (IF name = "tasks" THEN TABLE_TASKS ELSE TABLE_CASHFLOW)
           /\ TranslatedCreate(IF name = "tasks" THEN TaskCreateRows ELSE CashflowCreateRows,
                               event.body.o, WriteRequests[1].fields)
           /\ pc \in {"write", "done"}
           /\ pc = "done" =>
                 /\ response.statusCode = 200
                 /\ response.body = [ok |-> TRUE, record |-> Obj([id |-> Str("recNew")])]

\* A POST /tasks with the key of recP1 and a progress of "50" has been
\* answered 200 after its create.
C19_Witness ==
    /\ IsRoute("POST", "tasks", FALSE)
    /\ KnownKeyInBody
    /\ Supplied(event.body.o, "progress")
    /\ pc = "done"
    /\ response.statusCode = 200
    /\ WriteRequests[1].fields["Project"] = Arr(<<Str("recP1")>>)
    /\ WriteRequests[1].fields["Progress"] = Num(50)

-----------------------------------------------------------------------------
(* The order of the requests of a write route *)

\* The invocation needs the project lookup before its write: a create, or an
\* update whose body carries a projectKey.
LookupNeeded ==
    /\ event.httpMethod \in {"POST", "PATCH"}
    /\ event.body.kind = "object"
    /\ \/ event.httpMethod = "POST"
       \/ "projectKey" \in DOMAIN event.body.o /\ event.body.o["projectKey"] # Str("")

\* The places of net where a write request is.
WritePlaces == {i \in DOMAIN net : net[i].kind = "write"}

\* C20: an invocation of part_001 issues at most one write request; when it
\* needs the project lookup, the write comes after every list request, once
\* the last page of Projects has been received and the lookup of the key in
\* projectKeyToId has given a value; otherwise the write is its only request;
\* and a GET, an OPTIONS, and an invocation answered 400 or 404 issue no write.
C20_WriteDiscipline ==
    variant = "part_001" =>
        /\ Cardinality(WritePlaces) <= 1
        /\ \A w \in WritePlaces :
              IF LookupNeeded
              THEN /\ \A i \in DOMAIN net : net[i].kind = "list" => i < w
                   /\ fetch[TABLE_PROJECTS].st = "done"
                   /\ Len(ListRequestsOf(TABLE_PROJECTS)) = Len(tables[TABLE_PROJECTS])
                   /\ maps.projectsRec =
                         RecordsOfPages(tables[TABLE_PROJECTS], Len(tables[TABLE_PROJECTS]))
                   /\ Truthy(GetProp(maps.projectKeyToId, event.body.o["projectKey"]))
              ELSE Len(net) = 1
        /\ (\/ event.httpMethod \in {"GET", "OPTIONS"}
            \/ pc = "done" /\ response.statusCode \in {400, 404})
           => WritePlaces = {}

\* A PATCH that carries the key of a record of the second page of Projects
\* has sent its patch after both list requests.
C20_Witness ==
    /\ variant = "part_001"
    /\ event.httpMethod = "PATCH"
    /\ LookupNeeded
    /\ tables[TABLE_PROJECTS] = TwoPageProjects
    /\ Len(net) = 3
    /\ net[3].kind = "write"
    /\ net[3].fields["Project"] = Arr(<<Str("recP1")>>)

-----------------------------------------------------------------------------
(* The lookup table as a pair of inverse maps *)

\* C21: for every fetched Projects sequence, two records with the same
\* "Project Key" included, the two maps of buildProjectMaps are mutual
\* inverses: projectKeyToId[projectIdToKey[id]] = id for every id of
\* projectIdToKey, and projectIdToKey[projectKeyToId[k]] = k for every key k
\* of projectKeyToId.
C21_Bidirectional ==
    MapsBuilt =>
        /\ \A id \in DOMAIN maps.projectIdToKey :
              GetProp(maps.projectKeyToId, maps.projectIdToKey[id]) = Str(id)
        /\ \A k \in DOMAIN maps.projectKeyToId :
              GetProp(maps.projectIdToKey, maps.projectKeyToId[k]) = Str(k)

-----------------------------------------------------------------------------
(* GET of part_001 and of airtable-with-cashflow.js against child records
   whose link is a scalar, a list of one, a list of several, or missing *)

MaxLinked == 2

\* The name of the key field of Projects in the base a handler reads.
KeyField(hv) == IF hv = "with_cashflow" THEN "projectKey" ELSE "Project Key"

KeyedProject(hv, i, key) ==
    [id |-> ProjectId(i),
     fields |-> Obj((KeyField(hv) :> Str(key)) @@ ("Name" :> Str(ProjectId(i))))]

LinkShapes == {"scalar", "single", "several", "unknownFirst", "empty", "absent"}

LinkValue(shape) ==
    CASE shape = "scalar" -> Str("recP1")
      [] shape = "single" -> Arr(<<Str("recP1")>>)
      [] shape = "several" -> Arr(<<Str("recP2"), Str("recP1")>>)
      [] shape = "unknownFirst" -> Arr(<<Str("recX"), Str("recP1")>>)
      [] shape = "empty" -> Arr(<<>>)
      [] OTHER -> Undef

\* The i-th record of a child table; the field that reaches the output
\* unchanged holds its identifier under the name either handler reads.
LinkRecord(table, i, shape) ==
    LET id == table \o "-" \o ToString(i)
        tag == ("Name" :> Str(id)) @@ ("Text" :> Str(id)) @@ ("Item" :> Str(id))
               @@ ("Concept" :> Str(id))
    IN  [id |-> id,
         fields |-> Obj(IF shape = "absent" THEN tag
                        ELSE ("Project" :> LinkValue(shape)) @@ tag)]

InitLink ==
    /\ variant \in {"part_001", "with_cashflow"}
    /\ env = AllSet
    /\ event = [httpMethod |-> "GET", path |-> BasePath, body |-> NoBody]
    /\ writeAns = WriteAccepted
    /\ \E c \in ChildTableSet, shapes \in RecordSeqs(MaxLinked, LinkShapes) :
          tables = [t \in Tables |->
                      CASE t = TABLE_PROJECTS ->
                              OnePage(<<KeyedProject(variant, 1, "macro_lan"),
                                        KeyedProject(variant, 2, "micro_wan")>>)
                        [] t = c ->
                              OnePage([i \in DOMAIN shapes |-> LinkRecord(t, i, shapes[i])])
                        [] OTHER -> EmptyTable]
    /\ InitHandler

SpecLink == InitLink /\ [][NextRead]_vars

\* C22: in the GET of part_001 and of airtable-with-cashflow.js a child record
\* whose linked-project field is the scalar identifier P is attached to the
\* same project as a child whose field is the one-element list [P]; and a
\* child whose field is a list of several identifiers is attached only to the
\* project of the first element, never to the others.
C22_LinkNormalization ==
    Answered200 =>
        \A t \in ChildTableSet :
            \A i \in DOMAIN fetch[t].out :
                LET r == fetch[t].out[i]
                    first == Reference(r)
                    places == PlacesOf(t, r, response.body.projects)
                IN  /\ (/\ IsLookupId(first)
                        /\ ToPropertyKey(maps.projectIdToKey[first.s])
                              \in DOMAIN response.body.projects)
                       => /\ Cardinality(places) = 1
                          /\ \A kj \in places :
                                kj[1] = ToPropertyKey(maps.projectIdToKey[first.s])
                    /\ \A kj \in places : ResolvesTo(r, kj[1])

-----------------------------------------------------------------------------
(* GET of part_001 against one Cashflow record, its Amount any short string
   over the characters of a currency amount, a number, or missing *)

MaxAmountLen == 3

AmountAlphabet == {"$", ",", "0", "1", "5", ".", "-"}

\* A Cashflow record of the project recP1 with the given Amount, or none.
AmountRecord(amount) ==
    [id |-> "recC1",
     fields |-> Obj(("Project" :> Arr(<<Str("recP1")>>)) @@ ("Concept" :> Str("recC1"))
                    @@ (IF amount = Undef THEN <<>> ELSE ("Amount" :> amount)))]

InitAmount ==
    /\ variant = "part_001"
    /\ env = AllSet
    /\ event = [httpMethod |-> "GET", path |-> BasePath, body |-> NoBody]
    /\ writeAns = WriteAccepted
    /\ \E amount \in {Undef, Null, Num(0), Num(1200), Num(-5), Str("$1,200.50"), Str("abc"),
                      Chars(<<"1", "-", "2">>), Chars(<<"1", ".", "2", ".", "3">>),
                      Chars(<<"-", "1", "2", ".", "5", "0">>)}
                     \cup {Chars(cs) : cs \in UNION {[1..n -> AmountAlphabet] :
                                                        n \in 0..MaxAmountLen}} :
          tables = [t \in Tables |->
                      CASE t = TABLE_PROJECTS -> OnePage(<<ProjectRecord(1, "key")>>)
                        [] t = TABLE_CASHFLOW -> OnePage(<<AmountRecord(amount)>>)
                        [] OTHER -> EmptyTable]
    /\ InitHandler

SpecAmount == InitAmount /\ [][NextRead]_vars

\* The characters of a source Amount value read as a string.
AmountText(src) ==
    CASE src.t = "chars" -> src.c
      [] src = Str("$1,200.50") -> <<"$", "1", ",", "2", "0", "0", ".", "5", "0">>
      [] src = Str("abc") -> <<"a", "b", "c">>
      [] src = Num(0) -> <<"0">>
      [] src = Num(1200) -> <<"1", "2", "0", "0">>
      [] src = Num(-5) -> <<"-", "5">>
      [] OTHER -> <<>>

\* What is left of a text when every character other than a digit, "." and
\* "-" is deleted.
RECURSIVE Remainder(_)
Remainder(cs) ==
    IF cs = <<>> THEN <<>>
    ELSE (IF Head(cs) \in {"0", "1", "2", "3", "4", "5", "6", "7", "8", "9", ".", "-"}
          THEN <<Head(cs)>> ELSE <<>>) \o Remainder(Tail(cs))

AllDigits(cs) == \A i \in DOMAIN cs : cs[i] \in {"0", "1", "2", "3", "4", "5", "6", "7", "8", "9"}

Unsigned(rem) == IF rem # <<>> /\ Head(rem) = "-" THEN Tail(rem) ELSE rem

\* rem is a number: an optional "-", then digits, or digits around one ".".
IsNumeral(rem) ==
    LET u == Unsigned(rem)
    IN  \/ u # <<>> /\ AllDigits(u)
        \/ \E p \in DOMAIN u :
              /\ u[p] = "."
              /\ Len(u) > 1
              /\ AllDigits(SubSeq(u, 1, p - 1))
              /\ AllDigits(SubSeq(u, p + 1, Len(u)))

RECURSIVE Pow10(_)
Pow10(k) == IF k = 0 THEN 1 ELSE 10 * Pow10(k - 1)

\* The value of the digits ds[1..Len(ds)] read in base ten.
RECURSIVE BaseTen(_, _)
BaseTen(ds, i) ==
    IF i > Len(ds) THEN 0
    ELSE (CHOOSE d \in 0..9 : ToString(d) = ds[i]) * Pow10(Len(ds) - i) + BaseTen(ds, i + 1)

\* out is the number a numeral denotes: with f digits after the ".", out times
\* 10^f is the numeral with its "." taken out, read in base ten.
Denotes(out, rem) ==
    LET u == Unsigned(rem)
        f == IF \E p \in DOMAIN u : u[p] = "."
             THEN Len(u) - (CHOOSE p \in DOMAIN u : u[p] = ".")
             ELSE 0
        units == BaseTen(SelectSeq(u, LAMBDA c : c # "."), 1)
        scale == IF "scale" \in DOMAIN out THEN out.scale ELSE 0
    IN  /\ out.t = "num"
        /\ out.n * Pow10(f) = (IF u = rem THEN units ELSE 0 - units) * Pow10(scale)

\* C23: in the tree of a GET of part_001 the amount of a cashflow entry is
\* the number obtained by deleting from the source Amount (as a string) every
\* character other than digits, "." and "-" and parsing the remainder, and is
\* 0 when the remainder is not a valid number (empty, "-", "1-2", "1.2.3");
\* "$1,200.50" gives 1200.5.
C23_CurrencyAmount ==
    Answered200 =>
        \A k \in DOMAIN response.body.projects :
            \A i \in DOMAIN response.body.projects[k].cashflow :
                LET e == response.body.projects[k].cashflow[i]
                    src == Field(FieldsOf(SourceOf(TABLE_CASHFLOW, e)), "Amount")
                    rem == Remainder(AmountText(src))
                IN  /\ IF IsNumeral(rem) THEN Denotes(e.amount, rem) ELSE e.amount = Num(0)
                    /\ src = Str("$1,200.50") => e.amount = [t |-> "num", n |-> 12005, scale |-> 1]
                    /\ rem \in {<<>>, <<"-">>, <<"1", "-", "2">>, <<"1", ".", "2", ".", "3">>}
                          => e.amount = Num(0)

\* The answer holds the cashflow entry of a record whose Amount is "$1,200.50",
\* with the amount 1200.5.
C23_Witness ==
    /\ Answered200
    /\ \E k \in DOMAIN response.body.projects :
          \E i \in DOMAIN response.body.projects[k].cashflow :
              LET e == response.body.projects[k].cashflow[i]
              IN  /\ Field(FieldsOf(SourceOf(TABLE_CASHFLOW, e)), "Amount") = Str("$1,200.50")
                  /\ e.amount.n = 12005
                  /\ e.amount.scale = 1

-----------------------------------------------------------------------------
(* Update and delete without a record identifier *)

\* The event takes an update or delete route and the record-identifier
\* segment of its path is empty.
EmptyRecordId ==
    /\ Route(variant, event) \in {"patchTasks", "patchCashflow", "deleteCashflow"}
    /\ RecordIdOf(Subpath(event.path)) = ""

\* C24: in part_001 and in the exported handler of airtable.js a PATCH or
\* DELETE whose path has an empty record-identifier segment (base/tasks/,
\* base/cashflow/) is rejected with status 400 and issues no backend request
\* of any kind.
C24_RecordIdRequired ==
    (variant \in {"part_001", "airtable_js"} /\ ConfigPresent /\ EmptyRecordId) =>
        /\ net = <<>>
        /\ pc = "done" => response.statusCode = 400

-----------------------------------------------------------------------------
(* Two invocations of part_001 in flight at once *)

NextPair == Next \/ Switch

\* Projects whose record recP1 has the key micro_wan and recP2 the key
\* macro_lan.
SwappedProjects ==
    OnePage(<<KeyedProject("part_001", 1, "micro_wan"),
              KeyedProject("part_001", 2, "macro_lan")>>)

PairTables(projects, tasks) ==
    [t \in Tables |->
        CASE t = TABLE_PROJECTS -> projects
          [] t = TABLE_TASKS -> tasks
          [] t = TABLE_TEAM -> OnePage(<<LinkRecord(t, 1, "several")>>)
          [] OTHER -> EmptyTable]

CreateTaskEvent ==
    [httpMethod |-> "POST", path |-> PathOf(<<"", "tasks">>),
     body |-> [kind |-> "object",
               o |-> [projectKey |-> Str("macro_lan"), name |-> Str("50")]]]

GetEvent == [httpMethod |-> "GET", path |-> BasePath, body |-> NoBody]

\* What an invocation is called with and what the backend answers to it: a
\* GET or a create, against Projects that give recP1 the key macro_lan or give
\* it to recP2, or against a Tasks table that is refused.
PairJobs ==
    {[event |-> ev, tables |-> PairTables(p, OnePage(<<LinkRecord(TABLE_TASKS, 1, "single")>>)),
      writeAns |-> WriteAccepted] :
        ev \in {GetEvent, CreateTaskEvent}, p \in {KnownProjects, SwappedProjects}}
    \cup {[event |-> GetEvent, tables |-> PairTables(KnownProjects, FailingTable),
           writeAns |-> WriteAccepted]}

\* An invocation at its entry.
Entered(job) ==
    [event |-> job.event, tables |-> job.tables, writeAns |-> job.writeAns,
     pc |-> "start", fetch |-> [t \in Tables |-> IdleFetch], net |-> <<>>,
     maps |-> NoMaps, fields |-> EmptyObj, response |-> NoResponse]

InitPair ==
    /\ variant = "part_001"
    /\ env = AllSet
    /\ store = EmptyStore
    /\ \E a \in PairJobs, b \in PairJobs :
          /\ event = a.event
          /\ tables = a.tables
          /\ writeAns = a.writeAns
          /\ peer = Entered(b)
    /\ pc = "start"
    /\ fetch = [t \in Tables |-> IdleFetch]
    /\ net = <<>>
    /\ maps = NoMaps
    /\ fields = EmptyObj
    /\ response = NoResponse

SpecPair == InitPair /\ [][NextPair]_vars

\* The response of the invocation that runs when it is the only one: from its
\* entry, each answer of the backend handed to it in turn.
RECURSIVE RunAlone(_)
RunAlone(s) ==
    CASE s.pc = "done" -> s.response
      [] s.pc = "start" -> RunAlone(StartOutcome(s, variant))
      [] s.pc = "write" -> RunAlone(WriteOutcome(s))
      [] OTHER -> RunAlone(ListOutcome(s, variant,
                                       CHOOSE t \in Tables : s.fetch[t].st = "inflight"))

\* C25: with two invocations of part_001 in flight and their awaits
\* interleaved in any way, each builds and uses only its own lookup maps and
\* projects tree: its maps are those of the Projects records served to it, and
\* its response is the response it gives running alone against the same
\* answers of the backend.
C25_Isolation ==
    /\ (pc \in {"fanout", "write", "done"} /\ fetch[TABLE_PROJECTS].st = "done") =>
          maps = BuildProjectMaps(RecordsOfPages(tables[TABLE_PROJECTS],
                                                 Len(tables[TABLE_PROJECTS])))
    /\ pc = "done" =>
          response = RunAlone([pc |-> "start", fetch |-> [t \in Tables |-> IdleFetch],
                               net |-> <<>>, maps |-> NoMaps, fields |-> EmptyObj,
                               response |-> NoResponse])

\* A GET has answered with its tree while the other GET, against Projects
\* that give the keys to other records, is suspended in its fan-out with maps
\* of its own and part of its answers received.
C25_Witness ==
    /\ Answered200
    /\ event.httpMethod = "GET"
    /\ peer.pc = "fanout"
    /\ peer.maps.projectIdToKey # EmptyObj
    /\ peer.maps # maps
    /\ \E t \in ChildTableSet : peer.fetch[t].st = "done"
    /\ \E t \in ChildTableSet : peer.fetch[t].st = "inflight"

-----------------------------------------------------------------------------
(* GET of part_001, of airtable.js and of airtable-with-cashflow.js against
   tables that are served in full or refused on their first or second page *)

\* A table of two records on two pages, and the same table with its second
\* page refused.
TwoPages(r1, r2) ==
    <<[status |-> 200, text |-> "", records |-> <<r1>>, offset |-> 2],
      [status |-> 200, text |-> "", records |-> <<r2>>, offset |-> 0]>>

SecondRefused(r1) ==
    <<[status |-> 200, text |-> "", records |-> <<r1>>, offset |-> 2],
      Refused(429, "Too Many Requests")>>

\* The ways a table of the base is served.
Servings(hv, t) ==
    LET r1 == IF t = TABLE_PROJECTS THEN KeyedProject(hv, 1, "macro_lan")
              ELSE LinkRecord(t, 1, "single")
        r2 == IF t = TABLE_PROJECTS THEN KeyedProject(hv, 2, "micro_wan")
              ELSE LinkRecord(t, 2, "single")
    IN  CASE t \in {TABLE_PROJECTS, TABLE_CASHFLOW} ->
                {TwoPages(r1, r2), FailingTable, SecondRefused(r1)}
          [] t = TABLE_TASKS -> {OnePage(<<r1>>), SecondRefused(r1)}
          [] OTHER -> {OnePage(<<r1>>), FailingTable}

InitDegraded ==
    /\ variant \in {"part_001", "airtable_js", "with_cashflow"}
    /\ env = AllSet
    /\ event = [httpMethod |-> "GET", path |-> BasePath, body |-> NoBody]
    /\ writeAns = WriteAccepted
    /\ \E p \in Servings(variant, TABLE_PROJECTS), a \in Servings(variant, TABLE_TASKS),
          b \in Servings(variant, TABLE_TEAM), c \in Servings(variant, TABLE_CRITICAL),
          d \in Servings(variant, TABLE_CASHFLOW) :
            tables = [t \in Tables |->
                        CASE t = TABLE_PROJECTS -> p
                          [] t = TABLE_TASKS -> a
                          [] t = TABLE_TEAM -> b
                          [] t = TABLE_CRITICAL -> c
                          [] OTHER -> d]
    /\ InitHandler

SpecDegraded == InitDegraded /\ [][NextRead]_vars

\* The fetch of a table fails: one of its pages is refused.
FetchFails(t) == \E k \in DOMAIN tables[t] : tables[t][k].status \notin 200..299

\* The records of all pages of a table.
AllRecords(t) == RecordsOfPages(tables[t], Len(tables[t]))

\* C26: in the GET of the exported handler of airtable.js, if the Cashflow
\* fetch fails on any of its pages while Projects, Tasks, Team and Critical are
\* fetched, the response is 200 with every project's cashflow sequence empty
\* and tasks, team and critical fully populated; if the fetch of Projects,
\* Tasks, Team or Critical fails, the response is 500 with no projects tree.
C26_DegradedCashflow ==
    (variant = "airtable_js" /\ pc = "done") =>
        IF \E t \in Tables \ {TABLE_CASHFLOW} : FetchFails(t)
        THEN /\ response.statusCode = 500
             /\ "projects" \notin DOMAIN response.body
        ELSE FetchFails(TABLE_CASHFLOW) =>
                /\ response.statusCode = 200
                /\ \A K \in DOMAIN response.body.projects :
                      response.body.projects[K].cashflow = <<>>
                /\ \A t \in {TABLE_TASKS, TABLE_TEAM, TABLE_CRITICAL} :
                      \A i \in DOMAIN AllRecords(t) :
                          Appears(t, AllRecords(t)[i], response.body.projects)

\* The second page of Cashflow was refused, after a first page with a record,
\* and the answer is 200 with tasks under macro_lan and no cashflow.
C26_Witness ==
    /\ variant = "airtable_js"
    /\ Answered200
    /\ tables[TABLE_CASHFLOW] = SecondRefused(LinkRecord(TABLE_CASHFLOW, 1, "single"))
    /\ Len(ListRequestsOf(TABLE_CASHFLOW)) = 2
    /\ "macro_lan" \in DOMAIN response.body.projects
    /\ Len(response.body.projects["macro_lan"].tasks) = 1
    /\ response.body.projects["macro_lan"].cashflow = <<>>

\* C27: fetchAll of airtable-with-cashflow.js never rejects: a failure while
\* fetching any table, Projects included and on a later page too, makes it
\* return the empty array, the records of the pages already received
\* discarded; so GET answers 200 for any combination of failures, with an
\* empty projects object when the Projects fetch failed.
C27_FetchNeverRejects ==
    variant = "with_cashflow" =>
        /\ \A t \in Tables :
              /\ fetch[t].st # "failed"
              /\ fetch[t].st = "done" =>
                    fetch[t].out = IF FetchFails(t) THEN <<>> ELSE AllRecords(t)
        /\ pc = "done" =>
              /\ response.statusCode = 200
              /\ FetchFails(TABLE_PROJECTS) => response.body.projects = EmptyObj

\* Projects was refused on its second page, after a first page with a keyed
\* record, Tasks on its second page too, and the answer is 200 with no project.
C27_Witness ==
    /\ variant = "with_cashflow"
    /\ Answered200
    /\ tables[TABLE_PROJECTS] = SecondRefused(KeyedProject(variant, 1, "macro_lan"))
    /\ FetchFails(TABLE_TASKS)
    /\ Len(ListRequestsOf(TABLE_PROJECTS)) = 2
    /\ response.body.projects = EmptyObj

\* The places of net that hold a list request for a child table.
ChildRequests == {i \in DOMAIN net : net[i].kind = "list" /\ net[i].table # TABLE_PROJECTS}

\* C28: in the GET of part_001 no list request for Tasks, Team, Critical or
\* Cashflow is issued before the last page of the Projects fetch has been
\* received; if the Projects fetch fails, no request is issued for the four
\* child tables; and the aggregation starts only after all four child fetches
\* have completed successfully.
C28_FetchOrdering ==
    (variant = "part_001" /\ event.httpMethod = "GET") =>
        /\ ChildRequests # {} =>
              /\ fetch[TABLE_PROJECTS].st = "done"
              /\ fetch[TABLE_PROJECTS].out = AllRecords(TABLE_PROJECTS)
              /\ \A i \in ChildRequests :
                    \A j \in DOMAIN net : net[j].table = TABLE_PROJECTS => j < i
        /\ fetch[TABLE_PROJECTS].st = "failed" => ChildRequests = {}
        /\ (pc = "done" /\ "projects" \in DOMAIN response.body) =>
              \A t \in ChildTableSet :
                  fetch[t].st = "done" /\ fetch[t].out = AllRecords(t)

\* A GET over Projects of two pages has answered with the tree: the two
\* Projects requests come first in net, then those of the child tables, the
\* second page of Cashflow among them.
C28_Witness ==
    /\ variant = "part_001"
    /\ Answered200
    /\ Len(tables[TABLE_PROJECTS]) = 2
    /\ Len(net) = 7
    /\ net[2].table = TABLE_PROJECTS
    /\ net[2].offset = 2
    /\ Cardinality(ChildRequests) = 5
    /\ Len(response.body.projects["macro_lan"].cashflow) = 2

-----------------------------------------------------------------------------
(* GET of part_001 against a backend whose pages return any cursor *)

\* The requests of an invocation the model follows: the loop of fetchAll has
\* no bound of its own.
MaxRequests == 8

\* A table of two pages whose pages return the cursors c1 and c2: 0 for none,
\* k for the cursor of page k.
CursorTable(t, c1, c2) ==
    <<[status |-> 200, text |-> "", records |-> <<>>, offset |-> c1],
      [status |-> 200, text |-> "", records |-> <<PlainRecord(t, 2, 1)>>, offset |-> c2]>>

InitLoop ==
    /\ variant = "part_001"
    /\ env = AllSet
    /\ event = [httpMethod |-> "GET", path |-> BasePath, body |-> NoBody]
    /\ writeAns = WriteAccepted
    /\ \E p1 \in 0..2, p2 \in 0..2, a1 \in 0..2, a2 \in 0..2 :
          tables = [t \in Tables |->
                      CASE t = TABLE_PROJECTS -> CursorTable(t, p1, p2)
                        [] t = TABLE_TASKS -> CursorTable(t, a1, a2)
                        [] OTHER -> EmptyTable]
    /\ InitHandler

NextLoop == Len(net) < MaxRequests /\ NextRead

SpecLoop == InitLoop /\ [][NextLoop]_vars

\* C29: every backend request being answered, whatever cursors the pages
\* return (a page may return an offset that was returned before), every
\* invocation of part_001 returns a response; equivalently the loop of
\* fetchAll issues a bounded number of requests per table: against a table of
\* N pages, never more than N.
C29_Termination ==
    \A t \in Tables : Len(ListRequestsOf(t)) <= Len(tables[t])

-----------------------------------------------------------------------------
(* Two PATCH invocations of part_001 on one record of a backend that merges *)

\* The records stored before the two invocations.
StoredBefore ==
    ("recT1" :> (("Name" :> Str("old")) @@ ("Owner" :> Str("ann"))
                 @@ ("Status" :> Str("pending")) @@ ("Progress" :> Num(10))
                 @@ ("Project" :> Arr(<<Str("recP2")>>))))
    @@ ("recC1" :> (("Concept" :> Str("old")) @@ ("Currency" :> Str("USD"))
                    @@ ("Party" :> Str("acme")) @@ ("Project" :> Arr(<<Str("recP2")>>))))

\* Bodies of a PATCH of a task and of a cashflow record; every value is one
\* its translation leaves as it is.
TaskPatchBodies ==
    {[name |-> Str("A")], [owner |-> Str("B")], [name |-> Str("C"), status |-> Str("done")],
     [status |-> Str("blocked"), progress |-> Num(70)],
     [name |-> Str("A"), projectKey |-> Str("macro_lan")]}

CashflowPatchBodies ==
    {[concept |-> Str("X")], [currency |-> Str("EUR")],
     [concept |-> Str("Y"), currency |-> Str("ARS")]}

PatchJobs(tail, bodies) ==
    {[event |-> [httpMethod |-> "PATCH", path |-> PathOf(tail),
                 body |-> [kind |-> "object", o |-> o]],
      tables |-> [t \in Tables |-> IF t = TABLE_PROJECTS THEN KnownProjects ELSE EmptyTable],
      writeAns |-> w] :
        o \in bodies, w \in {WriteAccepted, [status |-> 422, text |-> "{ \"error\": \"INVALID\" }"]}}

InitPatches ==
    /\ variant = "part_001"
    /\ env = AllSet
    /\ store = [records |-> StoredBefore, applied |-> <<>>]
    /\ \E jobs \in {PatchJobs(<<"", "tasks", "recT1">>, TaskPatchBodies),
                    PatchJobs(<<"", "cashflow", "recC1">>, CashflowPatchBodies)} :
          \E a \in jobs, b \in jobs :
              /\ event = a.event
              /\ tables = a.tables
              /\ writeAns = a.writeAns
              /\ peer = Entered(b)
    /\ pc = "start"
    /\ fetch = [t \in Tables |-> IdleFetch]
    /\ net = <<>>
    /\ maps = NoMaps
    /\ fields = EmptyObj
    /\ response = NoResponse

SpecPatches == InitPatches /\ [][NextPair]_vars

\* Both invocations have answered 200: the backend has applied both patches.
BothApplied ==
    /\ pc = "done"
    /\ peer.pc = "done"
    /\ response.statusCode = 200
    /\ peer.response.statusCode = 200

\* The value a stored record has for a field, Undef when it has none.
StoredValue(rec, F) == IF F \in DOMAIN rec THEN rec[F] ELSE Undef

\* C30: two PATCH invocations of part_001 on the same record, in any
\* interleaving, against a backend that merges each patch into the stored
\* record: a field named by one body only holds that invocation's value, a
\* field named by neither is unchanged, and a field both bodies name holds the
\* value of whichever patch request the backend applied last.
C30_ConcurrentPatches ==
    BothApplied =>
        LET id == RecordIdOf(Subpath(event.path))
            rec == store.records[id]
            before == StoredBefore[id]
            o1 == event.body.o
            o2 == peer.event.body.o
            last == store.applied[Len(store.applied)]
            table == IF id = "recT1" THEN TaskPatchTable ELSE CashflowPatchTable
        IN  /\ Len(store.applied) = 2
            /\ \A i \in DOMAIN table :
                  LET x == table[i][1]
                      X == table[i][2]
                  IN  CASE x \in DOMAIN o1 /\ x \notin DOMAIN o2 -> rec[X] = o1[x]
                        [] x \notin DOMAIN o1 /\ x \in DOMAIN o2 -> rec[X] = o2[x]
                        [] x \in DOMAIN o1 /\ x \in DOMAIN o2 ->
                              rec[X] = last.fields[X] /\ rec[X] \in {o1[x], o2[x]}
                        [] OTHER -> StoredValue(rec, X) = StoredValue(before, X)
            /\ rec["Project"] =
                  IF "projectKey" \in DOMAIN o1 \cup DOMAIN o2
                  THEN Arr(<<Str("recP1")>>)
                  ELSE before["Project"]
            /\ DOMAIN store.records = DOMAIN StoredBefore
            /\ \A k \in DOMAIN StoredBefore \ {id} : store.records[k] = StoredBefore[k]

\* The patches {name: "A"} and {owner: "B"} of the task recT1 have both been
\* applied: the record holds both values, its status is as before.
C30_Witness ==
    /\ BothApplied
    /\ event.body.o = [name |-> Str("A")]
    /\ peer.event.body.o = [owner |-> Str("B")]
    /\ store.records["recT1"]["Name"] = Str("A")
    /\ store.records["recT1"]["Owner"] = Str("B")
    /\ store.records["recT1"]["Status"] = Str("pending")
    /\ store.applied[1].fields = ("Owner" :> Str("B"))

====
